---- MODULE Spec2Model ----
(***************************************************************************)
(* A model of @salesforce/command: the flag-set builder of sfdxFlags.ts    *)
(* (buildSfdxFlags and the helpers it calls) and the command lifecycle of  *)
(* sfdxCommand.ts (SfdxCommand._run: init, run, catch, finally).           *)
(*                                                                         *)
(* Strings the code inspects character by character (flag names, char      *)
(* aliases, environment values) are sequences of one-character strings.    *)
(* Strings the code only compares or copies (message texts, type and kind  *)
(* tags) are one-element sequences holding the whole text.                 *)
(***************************************************************************)
EXTENDS Integers, Sequences, FiniteSets, TLC

(***************************************************************************)
(* Bounds of the model.                                                    *)
(***************************************************************************)
MaxKeyLen == 2
MaxFlags == 2
MaxBuilds == 2
MaxRuns == 2
MaxArgv == 1
MaxFirings == 1

(***************************************************************************)
(* Characters and JavaScript values.                                       *)
(***************************************************************************)
Lower == {"a", "b", "c", "d", "e", "f", "g", "h", "i", "j", "k", "l", "m",
          "n", "o", "p", "q", "r", "s", "t", "u", "v", "w", "x", "y", "z"}
Upper == {"A", "B", "C", "D", "E", "F", "G", "H", "I", "J", "K", "L", "M",
          "N", "O", "P", "Q", "R", "S", "T", "U", "V", "W", "X", "Y", "Z"}
Digit == {"0", "1", "2", "3", "4", "5", "6", "7", "8", "9"}

\* A JavaScript value: undefined, a string, or a boolean.
Undefined == [t |-> "undefined", s |-> <<>>]
Str(s) == [t |-> "string", s |-> s]
False == [t |-> "false", s |-> <<>>]

\* ts-types isString
isString(v) == v.t = "string"

\* JavaScript truthiness (ToBoolean)
Truthy(v) == v.t = "true" \/ (v.t = "string" /\ v.s # <<>>)

\* Messages.getMessage(key): the text of a message, never empty
getMessage(key) == Str(<<key>>)

(***************************************************************************)
(* Flag objects.  def is FALSE for the value undefined (no object).         *)
(***************************************************************************)
\* deprecated is TRUE when the object carries a deprecation definition.
FlagObj(type, kind, char, description, longDescription) ==
  [def |-> TRUE, type |-> type, kind |-> kind, char |-> char,
   description |-> description, longDescription |-> longDescription,
   deprecated |-> FALSE]

NoFlag ==
  [def |-> FALSE, type |-> Undefined, kind |-> Undefined, char |-> Undefined,
   description |-> Undefined, longDescription |-> Undefined,
   deprecated |-> FALSE]

\* {} : an object without any of the modelled properties
EmptyObj == FlagObj(Undefined, Undefined, Undefined, Undefined, Undefined)

T_builtin == Str(<<"builtin">>)
T_option == Str(<<"option">>)
T_boolean == Str(<<"boolean">>)

\* flags.builtin(options): { ...options, type: 'builtin' }
buildBuiltin(options) ==
  [options EXCEPT !.def = TRUE, !.type = T_builtin]

\* merge(kind, flag, describable): { kind, ...flag, description, longDescription }
merge(kind, flag, describable) ==
  [FlagObj(flag.type, Str(<<kind>>), flag.char, describable.description,
           describable.longDescription)
     EXCEPT !.deprecated = flag.deprecated]

\* flags.boolean(options): OclifFlags.boolean stamps type 'boolean'
buildBoolean(options) ==
  merge("boolean", [options EXCEPT !.def = TRUE, !.type = T_boolean], options)

\* flags.string(options): OclifFlags.option stamps type 'option'
buildString(options) ==
  merge("string", [options EXCEPT !.def = TRUE, !.type = T_option], options)

\* flags.enum(options)
buildEnum(options) ==
  FlagObj(T_option, Str(<<"enum">>), options.char, options.description,
          options.longDescription)

\* requiredBuiltinFlags.json()
requiredJson ==
  buildBoolean([EmptyObj EXCEPT
    !.description = getMessage("flags.json.description"),
    !.longDescription = getMessage("flags.json.description.long")])

\* requiredBuiltinFlags.loglevel()
requiredLoglevel ==
  buildEnum([EmptyObj EXCEPT
    !.description = getMessage("flags.loglevel.description"),
    !.longDescription = getMessage("flags.loglevel.description.long")])

(***************************************************************************)
(* Flag names.                                                             *)
(***************************************************************************)
K_json == <<"j", "s", "o", "n">>
K_loglevel == <<"l", "o", "g", "l", "e", "v", "e", "l">>
K_apiversion == <<"a", "p", "i", "v", "e", "r", "s", "i", "o", "n">>
K_concise == <<"c", "o", "n", "c", "i", "s", "e">>
K_quiet == <<"q", "u", "i", "e", "t">>
K_verbose == <<"v", "e", "r", "b", "o", "s", "e">>
K_targetusername ==
  <<"t", "a", "r", "g", "e", "t", "u", "s", "e", "r", "n", "a", "m", "e">>
K_targetdevhubusername ==
  <<"t", "a", "r", "g", "e", "t", "d", "e", "v", "h", "u", "b",
    "u", "s", "e", "r", "n", "a", "m", "e">>

\* the keys of optionalBuiltinFlags
OptionalBuiltinKeys ==
  {K_apiversion, K_concise, K_quiet, K_targetdevhubusername,
   K_targetusername, K_verbose}

\* resolve(opts, key, def): hasString(opts, key) ? opts[key] : def
resolve(opts, value, default) ==
  IF opts.def /\ isString(value) THEN value ELSE default

BuiltinMessageKey(key) ==
  CASE key = K_apiversion -> "flags.apiversion.description"
    [] key = K_concise -> "flags.concise.description"
    [] key = K_quiet -> "flags.quiet.description"
    [] key = K_verbose -> "flags.verbose.description"
    [] key = K_targetusername -> "flags.targetusername.description"
    [] key = K_targetdevhubusername -> "flags.targetdevhubusername.description"

BuiltinLongMessageKey(key) ==
  CASE key = K_apiversion -> "flags.apiversion.description.long"
    [] key = K_concise -> "flags.long.description.long"
    [] key = K_quiet -> "flags.quiet.description.long"
    [] key = K_verbose -> "flags.verbose.description.long"
    [] key = K_targetusername -> "flags.targetusername.description.long"
    [] key = K_targetdevhubusername ->
         "flags.targetdevhubusername.description.long"

\* The flag a builtin builder creates before it is assigned onto opts.
BuiltinDefault(key, opts) ==
  LET described ==
        [EmptyObj EXCEPT
          !.description =
            resolve(opts, opts.description, getMessage(BuiltinMessageKey(key))),
          !.longDescription =
            resolve(opts, opts.longDescription,
                    getMessage(BuiltinLongMessageKey(key)))]
  IN CASE key = K_targetusername ->
            buildString([described EXCEPT !.char = Str(<<"u">>)])
       [] key = K_targetdevhubusername ->
            buildString([described EXCEPT !.char = Str(<<"v">>)])
       [] key = K_apiversion -> buildString(described)
       [] OTHER -> buildBoolean(described)

\* optionalBuiltinFlags[key](opts): Object.assign(opts ?? {}, flags.xxx({...})).
\* Every own property of the created flag overwrites the one of opts; char is
\* an own property of the created flag only for the two username flags.
optionalBuiltinFlags(key, opts) ==
  LET target == IF opts.def THEN opts ELSE EmptyObj
      created == BuiltinDefault(key, opts)
  IN [target EXCEPT
        !.type = created.type,
        !.kind = created.kind,
        !.char = IF key \in {K_targetusername, K_targetdevhubusername}
                 THEN created.char ELSE target.char,
        !.description = created.description,
        !.longDescription = created.longDescription]

(***************************************************************************)
(* validateCustomFlag and buildSfdxFlags.                                  *)
(***************************************************************************)
NameChars == Lower \cup Digit \cup {"-"}

\* FlagNameOk without the negative lookahead on digit-only names
FlagNameOk_noDigitLookahead(key) ==
  /\ Len(key) >= 1
  /\ key[1] # "-"
  /\ \A i \in 1..Len(key) : key[i] \in NameChars

\* /^(?!(?:[-]|[0-9]*$))[a-z0-9-]+$/.test(key)
FlagNameOk(key) ==
  /\ ~(\/ (Len(key) >= 1 /\ key[1] = "-")
       \/ \A i \in 1..Len(key) : key[i] \in Digit)
  /\ Len(key) >= 1
  /\ \A i \in 1..Len(key) : key[i] \in NameChars

\* flag.char && (flag.char.length !== 1 || !/[a-zA-Z]/.test(flag.char))
FlagCharBad(char) ==
  /\ Truthy(char)
  /\ \/ Len(char.s) # 1
     \/ ~(\E i \in 1..Len(char.s) : char.s[i] \in Lower \cup Upper)

\* validateCustomFlag(key, flag): "ok" when the flag is returned, else the
\* name of the error thrown
validateCustomFlag(key, flag) ==
  IF ~FlagNameOk(key) THEN "InvalidFlagName"
  ELSE IF FlagCharBad(flag.char) THEN "InvalidFlagChar"
  ELSE IF ~Truthy(flag.description) \/ ~isString(flag.description)
    THEN "MissingOrInvalidFlagDescription"
  ELSE IF flag.longDescription.t # "undefined" /\ ~isString(flag.longDescription)
    THEN "InvalidLongDescriptionFormat"
  ELSE "ok"

\* isBuiltin(flag): hasString(flag, 'type') && flag.type === 'builtin'
isBuiltin(flag) == isString(flag.type) /\ flag.type = T_builtin

\* isKeyOf(optionalBuiltinFlags, key)
isKeyOfOptionalBuiltinFlags(key) == key \in OptionalBuiltinKeys

\* The result of a build that threw.
BuildFailure(err, key, config) ==
  [ok |-> FALSE, err |-> err, key |-> key, flags |-> <<>>, config |-> config]

\* definiteEntriesOf(flagsConfig).forEach(...), from entry i on.  config is
\* the flagsConfig object: a builtin builder assigns onto the entry it is given.
RECURSIVE ProcessEntries(_, _, _)
ProcessEntries(config, i, output) ==
  IF i > Len(config)
  THEN [ok |-> TRUE, err |-> "", key |-> <<>>, flags |-> output,
        config |-> config]
  ELSE LET key == config[i].key
           flag == config[i].val
       IN IF ~flag.def
          THEN ProcessEntries(config, i + 1, output)
          ELSE IF isBuiltin(flag)
          THEN IF ~isKeyOfOptionalBuiltinFlags(key)
               THEN BuildFailure("UnknownBuiltinFlagType", key, config)
               ELSE LET built == optionalBuiltinFlags(key, flag)
                    IN ProcessEntries([config EXCEPT ![i].val = built], i + 1,
                                      (key :> built) @@ output)
          ELSE IF validateCustomFlag(key, flag) # "ok"
               THEN BuildFailure(validateCustomFlag(key, flag), key, config)
               ELSE ProcessEntries(config, i + 1, (key :> flag) @@ output)

\* InitialOutput adding apiversion for the targetusername toggle only
InitialOutput_apiversionForUsernameOnly(options) ==
  LET required == (K_json :> requiredJson) @@ (K_loglevel :> requiredLoglevel)
      hub == IF options.targetdevhubusername
             THEN (K_targetdevhubusername :>
                     optionalBuiltinFlags(K_targetdevhubusername, NoFlag))
             ELSE <<>>
      user == IF options.targetusername
              THEN (K_targetusername :>
                      optionalBuiltinFlags(K_targetusername, NoFlag))
              ELSE <<>>
      api == IF options.targetusername
             THEN (K_apiversion :> optionalBuiltinFlags(K_apiversion, NoFlag))
             ELSE <<>>
  IN api @@ user @@ hub @@ required

\* The flags buildSfdxFlags puts in the output before it reads flagsConfig.
InitialOutput(options) ==
  LET required == (K_json :> requiredJson) @@ (K_loglevel :> requiredLoglevel)
      hub == IF options.targetdevhubusername
             THEN (K_targetdevhubusername :>
                     optionalBuiltinFlags(K_targetdevhubusername, NoFlag))
             ELSE <<>>
      user == IF options.targetusername
              THEN (K_targetusername :>
                      optionalBuiltinFlags(K_targetusername, NoFlag))
              ELSE <<>>
      api == IF options.targetdevhubusername \/ options.targetusername
             THEN (K_apiversion :> optionalBuiltinFlags(K_apiversion, NoFlag))
             ELSE <<>>
  IN api @@ user @@ hub @@ required

\* buildSfdxFlags(flagsConfig, options): the flag set (or the error thrown)
\* and flagsConfig as the call leaves it
buildSfdxFlags(flagsConfig, options) ==
  ProcessEntries(flagsConfig, 1, InitialOutput(options))

(***************************************************************************)
(* Errors.  name is the error's name split into words, so that a trailing  *)
(* "Error" is its last word; code is "EEXIT" for oclif's exit signal;      *)
(* exitCode 0 stands for no exit code; data "" stands for no data; sf is    *)
(* TRUE for an SfError; def is FALSE for the value undefined (no error).    *)
(***************************************************************************)
Error(name, exitCode, data, sf) ==
  [def |-> TRUE, name |-> name, code |-> "", exitCode |-> exitCode,
   data |-> data, sf |-> sf, actions |-> 0]

NoError ==
  [def |-> FALSE, name |-> <<>>, code |-> "", exitCode |-> 0, data |-> "",
   sf |-> FALSE, actions |-> 0]

\* oclif's ExitError, thrown by the help and version flags
ExitError == [Error(<<"Error">>, 0, "", FALSE) EXCEPT !.code = "EEXIT"]

\* messages.createError('error.<Key>'): an SfError named <Key>Error
createError(key) == Error(<<key, "Error">>, 1, "", TRUE)

\* err.name === 'SfError' ? 'SfError' : err.name.replace(/Error$/, '')
stripErrorSuffix(name) ==
  IF name = <<"Sf", "Error">> THEN name
  ELSE IF Len(name) >= 1 /\ name[Len(name)] = "Error"
       THEN SubSeq(name, 1, Len(name) - 1)
       ELSE name

\* SfError.wrap(err): an SfError is returned as it is; any other error is
\* wrapped in a new SfError of the same name, with exit code 1 and no data
wrap(e) ==
  IF e.sf THEN e ELSE [e EXCEPT !.exitCode = 1, !.data = "", !.sf = TRUE]

(***************************************************************************)
(* Environment variables and argv.                                         *)
(***************************************************************************)
LowerSeq == <<"a", "b", "c", "d", "e", "f", "g", "h", "i", "j", "k", "l", "m",
              "n", "o", "p", "q", "r", "s", "t", "u", "v", "w", "x", "y", "z">>
UpperSeq == <<"A", "B", "C", "D", "E", "F", "G", "H", "I", "J", "K", "L", "M",
              "N", "O", "P", "Q", "R", "S", "T", "U", "V", "W", "X", "Y", "Z">>

\* String.prototype.toUpperCase
toUpperCase(s) ==
  [i \in 1..Len(s) |->
     IF s[i] \in Lower
     THEN UpperSeq[CHOOSE n \in 1..26 : LowerSeq[n] = s[i]]
     ELSE s[i]]

\* env.getString(key, def)
getString(value, default) == IF isString(value) THEN value.s ELSE default

\* env.getBoolean without its default
getBoolean_noDefault(value, default) ==
  IF isString(value) THEN toUpperCase(value.s) = <<"T", "R", "U", "E">>
  ELSE FALSE

\* env.getBoolean(key, def): the value, compared with 'true' whatever its case
getBoolean(value, default) ==
  IF isString(value) THEN toUpperCase(value.s) = <<"T", "R", "U", "E">>
  ELSE default

\* the content type compared without converting its case
isContentTypeJSON_caseSensitive(environment) ==
  getString(environment.SFDX_CONTENT_TYPE, <<>>) = <<"J", "S", "O", "N">>

\* env.getString('SFDX_CONTENT_TYPE', '').toUpperCase() === 'JSON'
isContentTypeJSON(environment) ==
  toUpperCase(getString(environment.SFDX_CONTENT_TYPE, <<>>))
    = <<"J", "S", "O", "N">>

Tok_json == <<"-", "-", "j", "s", "o", "n">>
\* the help flag of the framework, whose parse function shows the help and
\* calls exit(0)
Tok_help == <<"-", "-", "h", "e", "l", "p">>
Tok_loglevel == <<"-", "-", "l", "o", "g", "l", "e", "v", "e", "l">>

\* Array.prototype.includes
includes(seq, x) == \E i \in 1..Len(seq) : seq[i] = x

\* Array.prototype.join(' ')
RECURSIVE join(_)
join(tokens) ==
  IF tokens = <<>> THEN <<>>
  ELSE IF Len(tokens) = 1 THEN tokens[1]
  ELSE tokens[1] \o <<" ">> \o join(Tail(tokens))

RECURSIVE SkipSpaces(_, _)
SkipSpaces(s, i) ==
  IF i <= Len(s) /\ s[i] = " " THEN SkipSpaces(s, i + 1) ELSE i

RECURSIVE LettersEnd(_, _)
LettersEnd(s, i) ==
  IF i <= Len(s) /\ s[i] \in Lower THEN LettersEnd(s, i + 1) ELSE i

\* where the group ([a-z]+) of /--loglevel\s*=?\s*([a-z]+)/ starts when the
\* expression matches s at position p, else 0
LoglevelGroupAt(s, p) ==
  IF p + Len(Tok_loglevel) - 1 <= Len(s)
     /\ SubSeq(s, p, p + Len(Tok_loglevel) - 1) = Tok_loglevel
  THEN LET a == SkipSpaces(s, p + Len(Tok_loglevel))
           b == IF a <= Len(s) /\ s[a] = "=" THEN a + 1 ELSE a
           c == SkipSpaces(s, b)
       IN IF c <= Len(s) /\ s[c] \in Lower THEN c ELSE 0
  ELSE 0

\* this.argv.join(' ').match(/--loglevel\s*=?\s*([a-z]+)/): the group of the
\* leftmost match, or <<>> when there is no match
loglevelMatch(args) ==
  LET s == join(args)
      P == {p \in 1..Len(s) : LoglevelGroupAt(s, p) # 0}
  IN IF P = {} THEN <<>>
     ELSE LET p == CHOOSE q \in P : \A r \in P : q <= r
              c == LoglevelGroupAt(s, p)
          IN SubSeq(s, c, LettersEnd(s, c) - 1)

\* Logger.LEVEL_NAMES
LEVEL_NAMES ==
  {<<"t", "r", "a", "c", "e">>, <<"d", "e", "b", "u", "g">>,
   <<"i", "n", "f", "o">>, <<"w", "a", "r", "n">>,
   <<"e", "r", "r", "o", "r">>, <<"f", "a", "t", "a", "l">>}

\* Logger.DEFAULT_LEVEL
DEFAULT_LEVEL == <<"w", "a", "r", "n">>

\* logger.shouldLog(LoggerLevel.WARN) for a logger of the given level
shouldLogWarn(level) ==
  level \notin {<<"e", "r", "r", "o", "r">>, <<"f", "a", "t", "a", "l">>}

(***************************************************************************)
(* Varargs.                                                                *)
(***************************************************************************)
\* the positions of '=' in a token
EqualsAt(arg) == {i \in 1..Len(arg) : arg[i] = "="}

\* The varargs configurations: false, true, or { required, validator }.
\* The validator modelled is the one of the unit tests: it throws on an
\* empty value.
VarargsFalse ==
  [enabled |-> FALSE, isBoolean |-> TRUE, required |-> FALSE,
   validator |-> FALSE]
VarargsTrue ==
  [enabled |-> TRUE, isBoolean |-> TRUE, required |-> FALSE,
   validator |-> FALSE]
VarargsObject(required, validator) ==
  [enabled |-> TRUE, isBoolean |-> FALSE, required |-> required,
   validator |-> validator]

VarargsFailure(e) == [ok |-> FALSE, err |-> e, varargs |-> <<>>]

\* args.forEach(...) of parseVarargs, from token i on
RECURSIVE ParseEachVararg(_, _, _, _)
ParseEachVararg(descriptor, args, i, varargs) ==
  IF i > Len(args)
  THEN [ok |-> TRUE, err |-> NoError, varargs |-> varargs]
  ELSE LET arg == args[i]
           eq == CHOOSE p \in EqualsAt(arg) : TRUE
           name == SubSeq(arg, 1, eq - 1)
           value == SubSeq(arg, eq + 1, Len(arg))
       IN IF Cardinality(EqualsAt(arg)) # 1
          THEN VarargsFailure(createError("InvalidVarargsFormat"))
          ELSE IF name \in DOMAIN varargs /\ Truthy(varargs[name])
          THEN VarargsFailure(createError("DuplicateVarargs"))
          ELSE IF ~descriptor.isBoolean /\ descriptor.validator /\ value = <<>>
          THEN VarargsFailure(Error(<<"Error">>, 0, "", FALSE))
          ELSE ParseEachVararg(descriptor, args, i + 1,
                 (name :> (IF value # <<>> THEN Str(value) ELSE Undefined))
                   @@ varargs)

parseVarargs_requiredWhenEmpty(descriptor, args) ==
  IF Len(args) = 0
  THEN VarargsFailure(createError("VarargsRequired"))
  ELSE ParseEachVararg(descriptor, args, 1, <<>>)

\* parseVarargs(args)
parseVarargs(descriptor, args) ==
  IF Len(args) = 0 /\ ~descriptor.isBoolean /\ descriptor.required
  THEN VarargsFailure(createError("VarargsRequired"))
  ELSE ParseEachVararg(descriptor, args, 1, <<>>)


(***************************************************************************)
(* State.                                                                  *)
(***************************************************************************)
VARIABLES
  fdeclared,  \* the flagsConfig object as the command class declared it
  fcfg,       \* the same flagsConfig object as it is now
  ftoggles,   \* the options passed to buildSfdxFlags
  fbuilt      \* what each call of buildSfdxFlags returned or threw, in order

flagVars == <<fdeclared, fcfg, ftoggles, fbuilt>>

VARIABLES
  exitCode,       \* process.exitCode
  env,            \* the environment variables the code reads
  rootLevel,      \* the level of the root logger
  warnings,       \* UX.warnings, in insertion order
  listeners,      \* the event names of the Lifecycle listeners, in order
  flagsConfig,    \* the static flagsConfig object of each command class
  resultColumns,  \* SfdxCommand.result.tableColumnData, the static result
                  \* object that command classes inherit
  runs            \* the number of invocations started in this process

processVars ==
  <<exitCode, env, rootLevel, warnings, listeners, flagsConfig, resultColumns,
    runs>>

VARIABLES
  pc,         \* the stage the invocation is about to execute, "done" when
              \* _run has settled, "idle" when no command instance exists
  cmd,        \* the statics of the command class being run
  argv,       \* this.argv
  this,       \* the fields of the command instance
  err,        \* the error thrown in the try block of _run, or NoError
  ret,        \* how the promise of _run settled
  out,        \* the calls of UX output methods, Result.display and
              \* process.emit made by this invocation, in order
  trace,      \* the stages this invocation executed, in order
  startExit,  \* TRUE when process.exitCode was not 0 as this invocation
              \* started
  built,      \* what the static flags getter returned or threw when this
              \* invocation evaluated it
  body        \* the run() implementation this invocation executed

runVars ==
  <<pc, cmd, argv, this, err, ret, out, trace, startExit, built, body>>

VARIABLES
  pflag,    \* the flag definition whose parse function is being called
  pcall,    \* the last call of that parse function: the raw value it was
            \* given and what it returned or threw
  vconfig,  \* the varargs configuration parseVarargs is being called with
  vcall     \* the last call of parseVarargs: its arguments and its outcome

parseVars == <<pflag, pcall, vconfig, vcall>>

VARIABLES
  plugin,    \* the plugin in use: it decides which command classes exist and
             \* which command lines they are invoked with
  hookCalls  \* the firings of lifecycle events so far: their number, and
             \* the event and the config.runHook calls of the last one

vars == <<flagVars, processVars, runVars, parseVars, plugin, hookCalls>>

(***************************************************************************)
(* The flagsConfig objects the flag-set builder is checked on.             *)
(***************************************************************************)
KeyAlphabet == {"a", "F", "1", "-"}

CustomKeys ==
  UNION {[1..n -> KeyAlphabet] : n \in 1..MaxKeyLen}

Entry(key, val) == [key |-> key, val |-> val]

CharValues == {Undefined, Str(<<>>), Str(<<"m">>), Str(<<"5">>),
               Str(<<"f", "o">>)}
DescriptionValues == {Undefined, Str(<<>>), Str(<<"my desc">>), False}
LongDescriptionValues == {Undefined, Str(<<"my long desc">>), False}

\* the attributes a declaration passes to a flag builder
Attributes(char, description, longDescription) ==
  [EmptyObj EXCEPT !.char = char, !.description = description,
                   !.longDescription = longDescription]

\* custom declarations: flags.string(...), flags.boolean(...), a plain object
CustomFlags ==
  UNION {{buildString(a), buildBoolean(a), a} :
           a \in {Attributes(c, d, l) : c \in CharValues,
                    d \in DescriptionValues, l \in LongDescriptionValues}}

\* builtin markers: flags.builtin(overrides)
BuiltinMarkers ==
  {buildBuiltin(Attributes(c, d, l)) :
     c \in {Undefined, Str(<<"a">>), Str(<<"a", "b">>)},
     d \in {Undefined, Str(<<>>), Str(<<"my desc">>)},
     l \in {Undefined, Str(<<"my long desc">>)}}

\* flagsConfig objects with one property
SingleConfigs ==
  {<<Entry(k, v)>> :
     k \in CustomKeys \cup {K_verbose, K_apiversion, K_targetusername},
     v \in CustomFlags \cup BuiltinMarkers \cup {NoFlag}}

FewKeys == {<<"a">>, <<"F">>, <<"1">>, K_verbose}
FewFlags ==
  {buildString(Attributes(Str(<<"m">>), Str(<<"my desc">>), Undefined)),
   Attributes(Str(<<"5">>), Str(<<"my desc">>), Undefined),
   buildBuiltin(EmptyObj),
   buildBuiltin(Attributes(Undefined, Str(<<>>), Undefined)),
   NoFlag}

\* An own property key that is a canonical array index ("1", "11").
IsIndexKey(key) ==
  /\ Len(key) >= 1
  /\ \A i \in 1..Len(key) : key[i] \in Digit
  /\ (Len(key) > 1 => key[1] # "0")

DigitValue(c) ==
  CHOOSE n \in 0..9 :
    <<"0", "1", "2", "3", "4", "5", "6", "7", "8", "9">>[n + 1] = c

RECURSIVE IndexValue(_)
IndexValue(key) ==
  IF key = <<>> THEN 0
  ELSE 10 * IndexValue(SubSeq(key, 1, Len(key) - 1)) + DigitValue(key[Len(key)])

\* Object.entries order: array-index keys ascending, then the other keys in
\* the order they were added; keys are distinct.
PropertyOrder(config) ==
  \A i, j \in 1..Len(config) :
    i < j =>
      /\ config[i].key # config[j].key
      /\ IsIndexKey(config[j].key) =>
           /\ IsIndexKey(config[i].key)
           /\ IndexValue(config[i].key) < IndexValue(config[j].key)

\* flagsConfig objects with several properties
SeveralConfigs ==
  {c \in UNION {[1..n -> {Entry(k, v) : k \in FewKeys, v \in FewFlags}] :
                  n \in 2..MaxFlags} : PropertyOrder(c)}

FlagsConfigs == {<<>>} \cup SingleConfigs \cup SeveralConfigs

Toggles == [targetdevhubusername : BOOLEAN, targetusername : BOOLEAN]

(***************************************************************************)
(* The command instance and the process it runs in.                        *)
(***************************************************************************)
True == [t |-> "true", s |-> <<>>]

\* new Result(config): data is assigned in _run, ux in initLoggerAndUx
Result(tableColumnData) ==
  [data |-> "", tableColumnData |-> tableColumnData, ux |-> "none"]

\* The fields of a new command instance.  logger is <<>> and ux is "none"
\* until initLoggerAndUx assigns them; flags and varargs are <<>> (no
\* properties), org, hubOrg and project are "" until init assigns them.
NewInstance ==
  [isJson |-> FALSE, logger |-> <<>>, ux |-> "none", flags |-> <<>>,
   flagKeys |-> <<>>,
   parsedArgv |-> <<>>, varargs |-> <<>>, configAggregator |-> Undefined,
   project |-> "", org |-> "", hubOrg |-> "", result |-> Result("")]

NoReturn == [kind |-> "none", value |-> ""]

NoCommand ==
  [name |-> "", supportsUsername |-> FALSE, requiresUsername |-> FALSE,
   supportsDevhubUsername |-> FALSE, requiresDevhubUsername |-> FALSE,
   requiresProject |-> FALSE, deprecated |-> FALSE, varargs |-> VarargsFalse,
   flagsConfig |-> <<>>, lifecycleEventNames |-> <<>>, tableColumnData |-> ""]

\* run() has not been called
NoBody == [ran |-> FALSE, exitCode |-> 0, value |-> "", throws |-> NoError]

\* the static flags getter has not been evaluated
NotBuilt == [evaluated |-> FALSE, ok |-> TRUE, err |-> "", key |-> <<>>]

\* a process in which no command class is loaded
\* no parse function and no parseVarargs call is being exercised
NoCall == [def |-> FALSE]

NoParse ==
  /\ pflag = NoCall
  /\ pcall = NoCall
  /\ vconfig = NoCall
  /\ vcall = NoCall

NoFiring == [n |-> 0, event |-> "", calls |-> <<>>]

NoProcess ==
  /\ plugin = "none"
  /\ hookCalls = NoFiring
  /\ exitCode = 0
  /\ env = [SFDX_CONTENT_TYPE |-> Undefined, SFDX_JSON_TO_STDOUT |-> Undefined]
  /\ rootLevel = DEFAULT_LEVEL
  /\ warnings = <<>>
  /\ listeners = <<>>
  /\ flagsConfig = <<>>
  /\ resultColumns = ""
  /\ runs = 0
  /\ pc = "idle"
  /\ cmd = NoCommand
  /\ argv = <<>>
  /\ this = NewInstance
  /\ err = NoError
  /\ ret = NoReturn
  /\ out = <<>>
  /\ trace = <<>>
  /\ startExit = FALSE
  /\ built = NotBuilt
  /\ body = NoBody

\* initLoggerAndUx(): Logger.child takes the root logger's level; the UX
\* writes to the streams unless the command is in JSON mode
initLoggerAndUx(t, level) ==
  LET l == IF t.logger = <<>> THEN level ELSE t.logger
      u == IF t.ux = "none"
           THEN (IF t.isJson THEN "disabled" ELSE "enabled")
           ELSE t.ux
  IN [t EXCEPT !.logger = l, !.ux = u,
               !.result.ux = IF t.result.ux = "none" THEN u ELSE t.result.ux]

\* UX.warnings.add(message)
addWarning(set, message) ==
  IF includes(set, message) THEN set ELSE Append(set, message)

\* ux.warn(message) for each message of a sequence: the value of UX.warnings
\* and of the output calls afterwards
RECURSIVE warn(_, _, _, _)
warn(t, set, calls, messages) ==
  IF messages = <<>> THEN [warnings |-> set, out |-> calls]
  ELSE IF ~shouldLogWarn(t.logger)
       THEN warn(t, set, calls, Tail(messages))
  ELSE IF t.ux = "disabled"
       THEN warn(t, addWarning(set, Head(messages)), calls, Tail(messages))
  ELSE warn(t, set, Append(calls, [ch |-> "warn", message |-> Head(messages)]),
            Tail(messages))

\* Result.display(): the default display, as a call recorded in out
display(result) ==
  [ch |-> "display",
   arg |-> [data |-> result.data, tableColumnData |-> result.tableColumnData]]

\* formatError(error): the segments passed to ux.error
formatError(command, error) ==
  <<"ERROR running ", command.name, ": ">> \o error.name
    \o (IF error.actions > 0 THEN <<"Try this:">> ELSE <<>>)

\* the flags without the varargs
mergeFlagsAndVarargs_flagsOnly(t) == t.flags

\* Object.assign({}, this.flags, this.varargs)
mergeFlagsAndVarargs(t) == t.varargs @@ t.flags


(***************************************************************************)
(* The flag-set builder called repeatedly on one flagsConfig object.       *)
(***************************************************************************)
InitFlags ==
  /\ fdeclared \in FlagsConfigs
  /\ fcfg = fdeclared
  /\ ftoggles \in Toggles
  /\ fbuilt = <<>>
  /\ NoProcess
  /\ NoParse

\* SfdxCommand.flags: one evaluation of the static getter
BuildFlags ==
  /\ Len(fbuilt) < MaxBuilds
  /\ LET r == buildSfdxFlags(fcfg, ftoggles)
     IN /\ fbuilt' = Append(fbuilt, [ok |-> r.ok, err |-> r.err, key |-> r.key,
                                     flags |-> r.flags])
        /\ fcfg' = r.config
  /\ UNCHANGED <<fdeclared, ftoggles, processVars, runVars, parseVars, plugin, hookCalls>>

NextFlags == BuildFlags

SpecFlags == InitFlags /\ [][NextFlags]_vars

(***************************************************************************)
(* The parse functions of the flag kinds.  A JavaScript number is held as  *)
(* the count of its halves (Scale), so that 1.5 is 3 and Number.isInteger  *)
(* has something to reject; NaN is the other number a parse produces.      *)
(***************************************************************************)
MaxNumber == 3

Scale == 2
NaN == [nan |-> TRUE, h |-> 0]
Num(h) == [nan |-> FALSE, h |-> h]
Whole(n) == Num(Scale * n)
Null == [nan |-> TRUE, h |-> -1]

IsDigits(s) == Len(s) > 0 /\ \A i \in 1..Len(s) : s[i] \in Digit

\* the halves of an unsigned decimal numeral, -1 for any other string
UnsignedHalves(s) ==
  IF IsDigits(s) THEN Scale * IndexValue(s)
  ELSE IF /\ Len(s) >= 3
          /\ s[Len(s)] = "5"
          /\ s[Len(s) - 1] = "."
          /\ IsDigits(SubSeq(s, 1, Len(s) - 2))
       THEN Scale * IndexValue(SubSeq(s, 1, Len(s) - 2)) + 1
       ELSE -1

\* toNumber(val) of @salesforce/kit
toNumber(val) ==
  LET neg == Len(val) > 0 /\ val[1] = "-"
      u == UnsignedHalves(IF neg THEN Tail(val) ELSE val)
  IN IF u < 0 THEN NaN ELSE Num(IF neg THEN 0 - u ELSE u)

RECURSIVE DigitsOf(_)
DigitsOf(n) ==
  LET d == <<"0", "1", "2", "3", "4", "5", "6", "7", "8", "9">>[(n % 10) + 1]
  IN IF n < 10 THEN <<d>> ELSE DigitsOf(n \div 10) \o <<d>>

\* `${value}` of a number
numberToString(x) ==
  IF x.nan THEN <<"N", "a", "N">>
  ELSE LET a == IF x.h < 0 THEN 0 - x.h ELSE x.h
       IN (IF x.h < 0 THEN <<"-">> ELSE <<>>)
            \o DigitsOf(a \div Scale)
            \o (IF a % Scale = 1 THEN <<".", "5">> ELSE <<>>)

isInteger(x) == ~x.nan /\ x.h % Scale = 0
isFinite(x) == ~x.nan
lessThan(x, y) == ~x.nan /\ ~y.nan /\ x.h < y.h

\* Duration of @salesforce/kit: a quantity in a unit, and its getters
Duration(quantity, unit) == [quantity |-> quantity, unit |-> unit]
isNumber(v) == "nan" \in DOMAIN v
MillisecondsIn(unit) ==
  CASE unit = "milliseconds" -> 1
    [] unit = "seconds" -> 1000
    [] unit = "minutes" -> 60000
DurationGet(d, unit) ==
  LET n == d.quantity.h * MillisecondsIn(d.unit)
      m == MillisecondsIn(unit)
  IN IF d.unit = unit THEN d.quantity
     ELSE Whole((2 * n + Scale * m) \div (2 * Scale * m))

Returned(value) == [ok |-> TRUE, value |-> value]
Thrown(name, message) == [ok |-> FALSE, name |-> name, message |-> message]

\* validateValue(isValid, value, kind, correct)
validateValue(isValid, value, kind, correct) ==
  IF isValid THEN Returned(value)
  ELSE Thrown("InvalidFlagTypeError",
              [key |-> "error.InvalidFlagType",
               tokens |-> <<value, kind, correct>>])

\* the validators a flag definition can carry: a regular expression, the
\* source string of one, or a predicate; each is described by the character
\* class it looks for and whether the whole value has to be made of it
NoValidator == [t |-> "undefined"]
Validator(t, class, whole) == [t |-> t, class |-> class, whole |-> whole]
test(v, val) ==
  IF v.whole THEN Len(val) > 0 /\ \A i \in 1..Len(val) : val[i] \in v.class
  ELSE \E i \in 1..Len(val) : val[i] \in v.class

\* toValidatorFn(validator)(val)
toValidatorFn(validator, val) ==
  IF validator.t \in {"string", "regexp", "function"} THEN test(validator, val)
  ELSE TRUE

extract(kind, v) ==
  IF kind \in {"integer", "number"} THEN v
  ELSE IF isNumber(v) THEN v ELSE DurationGet(v, kind)

BoundsFailure(kind, relation, bound, value) ==
  Thrown("InvalidFlagNumericBoundsError",
         <<"Expected", <<kind>>, relation, numberToString(bound),
           "but received", numberToString(value)>>)

validateBounds_zeroIgnored(kind, value, bounds) ==
  IF /\ bounds.min # Null /\ extract(kind, bounds.min) # Whole(0)
     /\ lessThan(value, extract(kind, bounds.min))
  THEN BoundsFailure(kind, "greater than or equal to",
                     extract(kind, bounds.min), value)
  ELSE IF /\ bounds.max # Null /\ extract(kind, bounds.max) # Whole(0)
          /\ lessThan(extract(kind, bounds.max), value)
       THEN BoundsFailure(kind, "less than or equal to",
                          extract(kind, bounds.max), value)
       ELSE Returned(value)

\* validateBounds(kind, value, bounds, extract)
validateBounds(kind, value, bounds) ==
  IF bounds.min # Null /\ lessThan(value, extract(kind, bounds.min))
  THEN BoundsFailure(kind, "greater than or equal to",
                     extract(kind, bounds.min), value)
  ELSE IF bounds.max # Null /\ lessThan(extract(kind, bounds.max), value)
       THEN BoundsFailure(kind, "less than or equal to",
                          extract(kind, bounds.max), value)
       ELSE Returned(value)

\* the parse function of buildInteger
buildInteger(options, val) ==
  LET parsed == toNumber(val)
      valid == validateValue(isInteger(parsed), val, "integer", <<>>)
  IN IF ~valid.ok THEN valid ELSE validateBounds("integer", parsed, options)

\* the parse function of buildNumber
buildNumber(options, val) ==
  LET parsed == toNumber(val)
      valid == validateValue(isFinite(parsed), val, "number", <<>>)
  IN IF ~valid.ok THEN valid ELSE validateBounds("number", parsed, options)

\* the parse functions of buildMilliseconds, buildMinutes and buildSeconds
buildDuration(kind, options, val) ==
  LET parsed == toNumber(val)
      valid == validateValue(isInteger(parsed), val, kind, <<>>)
      bounded == validateBounds(kind, parsed, options)
  IN IF ~valid.ok THEN valid
     ELSE IF ~bounded.ok THEN bounded
     ELSE Returned(Duration(bounded.value, kind))

NumberKinds == {"integer", "number", "milliseconds", "minutes", "seconds"}
DurationKinds == {"milliseconds", "minutes", "seconds"}


(***************************************************************************)
(* Array flags.  String.prototype.split is computed as ECMAScript defines  *)
(* it for a regular expression with capture groups: the captures of each   *)
(* match are spliced into the output, undefined for a group that did not   *)
(* take part in the match.                                                 *)
(***************************************************************************)
DoubleQuote == "\""
SingleQuote == "'"
Space == " "

ClosingQuotes(s, q) == {j \in (q + 1)..Len(s) : s[j] = s[q]}
Least(S) == CHOOSE j \in S : \A k \in S : j <= k

MatchAt_delimiterOnly(s, q, delimiter) ==
  IF s[q] = delimiter
  THEN [found |-> TRUE, end |-> q, captures |-> <<Undefined, Undefined>>]
  ELSE [found |-> FALSE, end |-> q, captures |-> <<>>]

\* where "(.*?)"|'(.*?)'|<delimiter> matches at position q of s
MatchAt(s, q, delimiter) ==
  IF s[q] = DoubleQuote /\ ClosingQuotes(s, q) # {}
  THEN LET j == Least(ClosingQuotes(s, q))
       IN [found |-> TRUE, end |-> j,
           captures |-> <<Str(SubSeq(s, q + 1, j - 1)), Undefined>>]
  ELSE IF s[q] = SingleQuote /\ ClosingQuotes(s, q) # {}
  THEN LET j == Least(ClosingQuotes(s, q))
       IN [found |-> TRUE, end |-> j,
           captures |-> <<Undefined, Str(SubSeq(s, q + 1, j - 1))>>]
  ELSE IF s[q] = delimiter
  THEN [found |-> TRUE, end |-> q, captures |-> <<Undefined, Undefined>>]
  ELSE [found |-> FALSE, end |-> q, captures |-> <<>>]

\* flagValue.split(regex): p is where the pending piece starts, q the
\* position the expression is tried at
RECURSIVE split(_, _, _, _, _)
split(s, p, q, delimiter, output) ==
  IF q > Len(s) THEN Append(output, Str(SubSeq(s, p, Len(s))))
  ELSE LET m == MatchAt(s, q, delimiter)
       IN IF ~m.found THEN split(s, p, q + 1, delimiter, output)
          ELSE split(s, m.end + 1, m.end + 1, delimiter,
                     output \o <<Str(SubSeq(s, p, q - 1))>> \o m.captures)

RECURSIVE trim(_)
trim(s) ==
  IF s # <<>> /\ s[1] = Space THEN trim(Tail(s))
  ELSE IF s # <<>> /\ s[Len(s)] = Space THEN trim(SubSeq(s, 1, Len(s) - 1))
  ELSE s

\* convertArrayFlagToArray(flagValue, delimiter)
convertArrayFlagToArray(flagValue, delimiter) ==
  LET pieces == split(flagValue, 1, 1, delimiter, <<>>)
      kept == SelectSeq(pieces, Truthy)
  IN [i \in 1..Len(kept) |-> trim(kept[i].s)]

every(vals, P(_)) == \A i \in 1..Len(vals) : P(vals[i])

\* validateArrayValues(kind, raw, vals, validator)
validateArrayValues(kind, raw, vals, validator) ==
  LET valid(v) == toValidatorFn(validator, v)
  IN validateValue(every(vals, valid), raw, kind,
                   <<"error.FormattingMessageArrayValue">>)

\* validateArrayOptions(kind, raw, vals, allowed)
validateArrayOptions(kind, raw, vals, allowed) ==
  LET has(v) == v \in allowed
  IN validateValue(allowed = {} \/ every(vals, has), raw, kind,
                   <<"error.FormattingMessageArrayOption", allowed>>)

\* parseInt(v, 10), the map function of the unit tests
LeadingDigits(s) ==
  LET stops == {i \in 1..Len(s) : s[i] \notin Digit}
  IN IF stops = {} THEN s ELSE SubSeq(s, 1, Least(stops) - 1)
parseInt(v) ==
  LET t == trim(v)
      neg == t # <<>> /\ t[1] = "-"
      digits == LeadingDigits(IF neg THEN Tail(t) ELSE t)
  IN IF digits = <<>> THEN NaN
     ELSE Whole(IF neg THEN 0 - IndexValue(digits) ELSE IndexValue(digits))

delimiterOf(options) ==
  IF "delimiter" \in DOMAIN options THEN options.delimiter ELSE ","
validatorOf(options) ==
  IF "validate" \in DOMAIN options THEN options.validate ELSE NoValidator

\* the parse function of buildStringArray
buildStringArray(options, val) ==
  LET vals == convertArrayFlagToArray(val, delimiterOf(options))
      valid == validateArrayValues("array", val, vals, validatorOf(options))
      allowed == validateArrayOptions("array", val,
                                      [i \in 1..Len(vals) |-> Str(vals[i])],
                                      options.options)
  IN IF ~valid.ok THEN valid
     ELSE IF ~allowed.ok THEN allowed
     ELSE Returned(vals)

\* the parse function of buildMappedArray
buildMappedArray(options, val) ==
  LET vals == convertArrayFlagToArray(val, delimiterOf(options))
      valid == validateArrayValues("array", val, vals, validatorOf(options))
      mappedVals == [i \in 1..Len(vals) |-> parseInt(vals[i])]
      allowed == validateArrayOptions("array", val, mappedVals,
                                      options.options)
  IN IF ~valid.ok THEN valid
     ELSE IF ~allowed.ok THEN allowed
     ELSE Returned(mappedVals)

\* buildArray(options)
buildArray(options, val) ==
  IF "map" \in DOMAIN options THEN buildMappedArray(options, val)
  ELSE buildStringArray(options, val)

\* flag.parse as merge leaves it: the validator of the definition, when
\* there is one, is applied to the raw value before the parse function of
\* the kind
mergedParse(flag, val) ==
  LET checked == IF "validate" \in DOMAIN flag
                 THEN validateValue(toValidatorFn(flag.validate, val), val,
                                    flag.kind, <<>>)
                 ELSE Returned(val)
  IN IF ~checked.ok THEN checked
     ELSE CASE flag.kind = "integer" -> buildInteger(flag, val)
            [] flag.kind = "number" -> buildNumber(flag, val)
            [] flag.kind \in DurationKinds -> buildDuration(flag.kind, flag, val)
            [] flag.kind = "array" -> buildArray(flag, val)

\* the numeric flag definitions and the raw values they are given
OnlyDigits == Validator("regexp", Digit, TRUE)
BoundValues(kind) ==
  {Null, Whole(0), Whole(2)}
    \cup (IF kind \in DurationKinds
          THEN {Duration(Whole(0), kind), Duration(Whole(2), kind)}
          ELSE {})
AllBoundValues == UNION {BoundValues(k) : k \in NumberKinds}
NumberFlags ==
  LET plain == {[def |-> TRUE, kind |-> k, min |-> lo, max |-> hi] :
                  k \in NumberKinds, lo \in AllBoundValues,
                  hi \in AllBoundValues}
      sound == {f \in plain : /\ f.min \in BoundValues(f.kind)
                              /\ f.max \in BoundValues(f.kind)}
  IN sound \cup {f @@ [validate |-> OnlyDigits] : f \in sound}
RawNumbers ==
  {numberToString(Num(h)) : h \in (0 - Scale * MaxNumber)..(Scale * MaxNumber)}
    \cup {<<"a">>}

\* the array flag definitions and the raw values they are given
MaxRawLen == 3
MaxTokens == 2

SomeDigit == Validator("string", Digit, FALSE)
OnlyDigitsPredicate == Validator("function", Digit, TRUE)
ArrayFlags ==
  LET strings == {[def |-> TRUE, kind |-> "array", options |-> o] :
                    o \in {{}, {Str(<<"1">>)}}}
      mapped == {[def |-> TRUE, kind |-> "array", options |-> o,
                  map |-> "parseInt"] : o \in {{}, {Whole(1)}}}
      base == strings \cup mapped
      delimited == base \cup {f @@ [delimiter |-> ";"] : f \in base}
  IN delimited
       \cup {f @@ [validate |-> v] :
               f \in delimited, v \in {SomeDigit, OnlyDigits,
                                       OnlyDigitsPredicate}}

ArrayAlphabet(delimiter) ==
  {"1", "c", Space, delimiter, DoubleQuote, SingleQuote}
Strings(n, delimiter) ==
  UNION {[1..k -> ArrayAlphabet(delimiter)] : k \in 0..n}

\* raw values made of bare and quoted tokens joined by the delimiter
Bare(text) == [quoted |-> FALSE, quote |-> "", text |-> text]
Quoted(quote, text) == [quoted |-> TRUE, quote |-> quote, text |-> text]
Tokens(delimiter) ==
  {Bare(<<"1">>)}
    \cup {Quoted(q, t) :
            q \in {DoubleQuote, SingleQuote},
            t \in {<<>>, <<Space>>, <<delimiter>>,
                   <<"1", delimiter, Space, "c">>}}
TokenSeqs(delimiter) ==
  UNION {[1..k -> Tokens(delimiter)] : k \in 1..MaxTokens}
Written(token) ==
  IF token.quoted THEN <<token.quote>> \o token.text \o <<token.quote>>
  ELSE token.text
RECURSIVE JoinTokens(_, _)
JoinTokens(tokens, delimiter) ==
  IF Len(tokens) = 1 THEN Written(tokens[1])
  ELSE JoinTokens(SubSeq(tokens, 1, Len(tokens) - 1), delimiter)
         \o <<delimiter>> \o Written(tokens[Len(tokens)])
RawArrays(delimiter) ==
  Strings(MaxRawLen, delimiter)
    \cup {JoinTokens(ts, delimiter) : ts \in TokenSeqs(delimiter)}

RawValues(flag) ==
  IF flag.kind = "array" THEN RawArrays(delimiterOf(flag)) ELSE RawNumbers

NoFlags ==
  /\ fdeclared = <<>>
  /\ fcfg = <<>>
  /\ ftoggles = [targetdevhubusername |-> FALSE, targetusername |-> FALSE]
  /\ fbuilt = <<>>

InitNumber ==
  /\ pflag \in NumberFlags
  /\ pcall = NoCall
  /\ vconfig = NoCall
  /\ vcall = NoCall
  /\ NoFlags
  /\ NoProcess

\* the call of flag.parse(val)
ParseFlag ==
  /\ pflag.def
  /\ ~pcall.def
  /\ \E val \in RawValues(pflag) :
       pcall' = [def |-> TRUE, val |-> val, res |-> mergedParse(pflag, val)]
  /\ UNCHANGED <<pflag, vconfig, vcall, flagVars, processVars, runVars, plugin, hookCalls>>

NextParse == ParseFlag

SpecNumber == InitNumber /\ [][NextParse]_vars

\* the tokenizer is the same whatever the validator of the definition
InitArray ==
  /\ pflag \in {f \in ArrayFlags : "validate" \notin DOMAIN f}
  /\ pcall = NoCall
  /\ vconfig = NoCall
  /\ vcall = NoCall
  /\ NoFlags
  /\ NoProcess

SpecArray == InitArray /\ [][NextParse]_vars

InitParse ==
  /\ pflag \in NumberFlags \cup ArrayFlags
  /\ pcall = NoCall
  /\ vconfig = NoCall
  /\ vcall = NoCall
  /\ NoFlags
  /\ NoProcess

SpecParse == InitParse /\ [][NextParse]_vars

(***************************************************************************)
(* parseVarargs on its own: the varargs configurations of a command class  *)
(* and the token lists left over by the framework parser.                  *)
(***************************************************************************)
MaxVarargs == 2

VarargsConfigs ==
  {VarargsTrue} \cup {VarargsObject(r, v) : r \in BOOLEAN, v \in BOOLEAN}
VarargTokens ==
  {<<"a", "=", "1">>, <<"a", "=", "2">>, <<"a", "=">>, <<"b", "=", "1">>,
   <<"a">>, <<"a", "=", "1", "=", "2">>}
VarargLists == UNION {[1..n -> VarargTokens] : n \in 0..MaxVarargs}

InitVarargs ==
  /\ vconfig \in VarargsConfigs
  /\ vcall = NoCall
  /\ pflag = NoCall
  /\ pcall = NoCall
  /\ NoFlags
  /\ NoProcess

\* the call of this.parseVarargs(args)
ParseVarargs ==
  /\ ~vcall.def
  /\ \E args \in VarargLists :
       vcall' = [def |-> TRUE, args |-> args,
                 res |-> parseVarargs(vconfig, args)]
  /\ UNCHANGED <<vconfig, pflag, pcall, flagVars, processVars, runVars, plugin, hookCalls>>

NextVarargs == ParseVarargs

SpecVarargs == InitVarargs /\ [][NextVarargs]_vars

(***************************************************************************)
(* The command classes, command lines, environments and command bodies     *)
(* the lifecycle is checked on.                                            *)
(***************************************************************************)
GoodFlag == buildString(Attributes(Undefined, Str(<<"my desc">>), Undefined))

\* class TestCommand extends SfdxCommand { static flagsConfig = { a: ... } }
TestCommand ==
  [NoCommand EXCEPT !.name = "TestCommand",
                    !.flagsConfig = <<Entry(<<"a">>, GoodFlag)>>]

\* a deprecated command that needs a project and an org, requires validated
\* varargs and registers a hook
DeployCommand ==
  [NoCommand EXCEPT !.name = "DeployCommand", !.requiresProject = TRUE,
                    !.requiresUsername = TRUE, !.deprecated = TRUE,
                    !.varargs = VarargsObject(TRUE, TRUE),
                    !.lifecycleEventNames = <<"predeploy">>,
                    !.tableColumnData = "columns"]

\* a command that accepts an org, needs a dev hub and takes varargs
HubCommand ==
  [NoCommand EXCEPT !.name = "HubCommand", !.supportsUsername = TRUE,
                    !.requiresDevhubUsername = TRUE, !.varargs = VarargsTrue]

\* a command whose flagsConfig declares a flag with an upper-case name
BadNameCommand ==
  [NoCommand EXCEPT !.name = "BadNameCommand",
                    !.flagsConfig = <<Entry(<<"F">>, GoodFlag)>>]

\* a command whose flagsConfig overrides a builtin's description with '',
\* and that takes varargs without requiring them
VerboseCommand ==
  [NoCommand EXCEPT !.name = "VerboseCommand",
                    !.varargs = VarargsObject(FALSE, FALSE),
                    !.flagsConfig =
                      <<Entry(K_verbose,
                              buildBuiltin(Attributes(Undefined, Str(<<>>),
                                                      Undefined)))>>]

\* a deprecated command with two deprecated flags, x and y, and a flag z
\* that is not deprecated
DeprecatedFlag ==
  buildBoolean([Attributes(Undefined, Str(<<"my desc">>), Undefined)
                  EXCEPT !.deprecated = TRUE])
LegacyCommand ==
  [NoCommand EXCEPT !.name = "LegacyCommand", !.deprecated = TRUE,
                    !.flagsConfig =
                      <<Entry(<<"x">>, DeprecatedFlag),
                        Entry(<<"y">>, DeprecatedFlag),
                        Entry(<<"z">>,
                              buildBoolean(Attributes(Undefined,
                                                      Str(<<"my desc">>),
                                                      Undefined)))>>]

Commands ==
  {TestCommand, DeployCommand, HubCommand, BadNameCommand, VerboseCommand}

Tok_error == <<"=", "e", "r", "r", "o", "r">>

\* the flag tokens of a command line, and its remaining tokens
FlagArgs ==
  {<<>>, <<Tok_json>>, <<Tok_loglevel \o Tok_error>>,
   <<Tok_loglevel \o <<"=", "x">>>>, <<Tok_json, Tok_loglevel \o Tok_error>>}
RestArgs ==
  UNION {[1..n -> {<<"a", "=", "b">>, <<"a", "=">>, <<"a">>}] :
           n \in 0..MaxArgv}

\* command lines of at most MaxArgv tokens: flags alone, other tokens alone,
\* and other tokens after --json
Argvs ==
  {a \in FlagArgs \cup RestArgs \cup {<<Tok_json>> \o r : r \in RestArgs} :
     Len(a) <= MaxArgv}

\* command lines for LegacyCommand
Tok_x == <<"-", "-", "x">>
Tok_y == <<"-", "-", "y">>
Tok_z == <<"-", "-", "z">>
LegacyArgvs ==
  {<<>>, <<Tok_x>>, <<Tok_z>>, <<Tok_x, Tok_y>>, <<Tok_y, Tok_x>>,
   <<Tok_json, Tok_y, Tok_x>>, <<Tok_loglevel \o Tok_error, Tok_x>>}

\* commands that support or require an org or a dev hub, and their command
\* lines
RequiresOrgCommand ==
  [NoCommand EXCEPT !.name = "RequiresOrgCommand", !.requiresUsername = TRUE]
SupportsOrgCommand ==
  [NoCommand EXCEPT !.name = "SupportsOrgCommand", !.supportsUsername = TRUE]
RequiresHubCommand ==
  [NoCommand EXCEPT !.name = "RequiresHubCommand",
                    !.requiresDevhubUsername = TRUE]
SupportsHubCommand ==
  [NoCommand EXCEPT !.name = "SupportsHubCommand",
                    !.supportsDevhubUsername = TRUE]
OrgCommands ==
  {RequiresOrgCommand, SupportsOrgCommand, RequiresHubCommand,
   SupportsHubCommand, HubCommand}
OrgArgvs == {<<>>, <<Tok_json>>}

\* commands that declare lifecycle events: the one of the unit tests, and
\* one that requires an org
HookCommand ==
  [NoCommand EXCEPT !.name = "HookCommand",
                    !.lifecycleEventNames = <<"test1", "test2">>]
HookOrgCommand ==
  [NoCommand EXCEPT !.name = "HookOrgCommand", !.requiresUsername = TRUE,
                    !.lifecycleEventNames = <<"test1">>]
HookCommands == {HookCommand, HookOrgCommand}
EventNames == {"test1", "test2"}

\* a command that takes the apiversion flag, and its command lines
ApiCommand ==
  [NoCommand EXCEPT !.name = "ApiCommand",
                    !.flagsConfig =
                      <<Entry(K_apiversion, buildBuiltin(EmptyObj))>>]
Tok_apiversion == <<"-", "-">> \o K_apiversion \o <<"=", "4", "3", ".", "0">>
ApiArgvs ==
  {<<>>, <<Tok_apiversion>>, <<Tok_json>>, <<Tok_json, Tok_apiversion>>,
   <<Tok_loglevel \o Tok_error>>, <<Tok_help>>, <<Tok_json, Tok_help>>}

\* the invocations a plugin gives rise to: a command class and a command
\* line
Invocations(p) ==
  CASE p = "core" -> Commands \X Argvs
    [] p = "legacy" -> {LegacyCommand} \X LegacyArgvs
    [] p = "org" -> OrgCommands \X OrgArgvs
    [] p = "hooks" -> HookCommands \X OrgArgvs
    [] p = "api" -> {ApiCommand} \X ApiArgvs
    [] OTHER -> {}

Environments ==
  {[SFDX_CONTENT_TYPE |-> Undefined, SFDX_JSON_TO_STDOUT |-> Undefined],
   [SFDX_CONTENT_TYPE |-> Str(<<"J", "s", "o", "n">>),
    SFDX_JSON_TO_STDOUT |-> Str(<<"T", "r", "u", "e">>)],
   [SFDX_CONTENT_TYPE |-> Undefined,
    SFDX_JSON_TO_STDOUT |-> Str(<<"f", "a", "l", "s", "e">>)]}

\* the values configAggregator.getInfo('apiVersion').value can take
ApiVersions == {Undefined, Str(<<"5", "0", ".", "0">>)}

\* what SfProject.resolve() can throw
ProjectErrors ==
  {Error(<<"InvalidProjectWorkspace">>, 1, "", TRUE),
   Error(<<"InvalidProjectWorkspace", "Error">>, 1, "", TRUE)}

\* what Org.create() can throw
OrgErrors ==
  {Error(<<"NoUsernameFound", "Error">>, 1, "", TRUE),
   Error(<<"NamedOrgNotFound", "Error">>, 1, "", FALSE)}

\* what Org.create() throws in the invocations of a plugin
AuthInfoCreationError == Error(<<"AuthInfoCreation", "Error">>, 1, "", TRUE)
OrgFailures(p) ==
  IF p = "org" THEN OrgErrors \cup {AuthInfoCreationError} ELSE OrgErrors

\* A command body: the exit status it assigns to process.exitCode (0 when it
\* assigns none), and the value it returns or the error it throws.
Body(status, value, throws) ==
  [ran |-> TRUE, exitCode |-> status, value |-> value, throws |-> throws]

\* the exit code of the SfError the unit tests throw
DeclaredExitCode == 100

Bodies ==
  {Body(0, "data", NoError), Body(3, "data", NoError),
   Body(0, "", Error(<<"Error">>, 0, "", FALSE)),
   Body(3, "", Error(<<"Error">>, 0, "", FALSE)),
   Body(0, "", Error(<<"Test", "Error">>, DeclaredExitCode, "details", TRUE)),
   Body(0, "", Error(<<"Sf", "Error">>, 0, "", TRUE)),
   Body(0, "", ExitError)}

(***************************************************************************)
(* One invocation of a command: _run, init stage by stage, run, catch and  *)
(* finally.                                                                *)
(***************************************************************************)
Start(p) ==
  /\ NoParse
  /\ plugin = p
  /\ hookCalls = NoFiring
  /\ fdeclared = <<>>
  /\ fcfg = <<>>
  /\ ftoggles = [targetdevhubusername |-> FALSE, targetusername |-> FALSE]
  /\ fbuilt = <<>>
  /\ exitCode = 0
  /\ env \in Environments
  /\ rootLevel = DEFAULT_LEVEL
  /\ warnings = <<>>
  /\ listeners = <<>>
  /\ flagsConfig = [n \in {i[1].name : i \in Invocations(p)} |->
                      (CHOOSE i \in Invocations(p) : i[1].name = n)[1]
                        .flagsConfig]
  /\ resultColumns = ""
  /\ runs = 0
  /\ pc = "idle"
  /\ cmd = NoCommand
  /\ argv = <<>>
  /\ this = NewInstance
  /\ err = NoError
  /\ ret = NoReturn
  /\ out = <<>>
  /\ trace = <<>>
  /\ startExit = FALSE
  /\ built = NotBuilt
  /\ body = NoBody

Init == Start("core")

\* a failed stage followed by the body
Throw_proceeds(stage, e) ==
  /\ err' = e
  /\ pc' = "run"
  /\ trace' = Append(trace, stage)

\* the stage `stage` ends with the error e thrown: control goes to catch
Throw(stage, e) ==
  /\ err' = e
  /\ pc' = "catch"
  /\ trace' = Append(trace, stage)

\* the stage `stage` completes: control goes to the stage `next`
Continue(stage, next) ==
  /\ err' = err
  /\ pc' = next
  /\ trace' = Append(trace, stage)

\* the stage `stage` is not part of this command: nothing is executed
Skip(next) ==
  /\ err' = err
  /\ pc' = next
  /\ trace' = trace

\* cmd._run(), up to the call of init
Invoke(c, a) ==
  /\ pc = "idle"
  /\ runs < MaxRuns
  /\ runs' = runs + 1
  /\ resultColumns' = IF resultColumns = "" /\ c.tableColumnData # ""
                      THEN c.tableColumnData
                      ELSE resultColumns
  /\ cmd' = c
  /\ argv' = a
  /\ this' = [NewInstance EXCEPT !.result = Result(resultColumns')]
  /\ err' = NoError
  /\ ret' = NoReturn
  /\ out' = <<>>
  /\ trace' = <<>>
  /\ startExit' = (exitCode # 0)
  /\ built' = NotBuilt
  /\ body' = NoBody
  /\ pc' = "init"
  /\ UNCHANGED <<exitCode, env, rootLevel, warnings, listeners, flagsConfig,
                 flagVars, parseVars, plugin, hookCalls>>

\* init, up to super.init(): the exit status is reset, isJson is computed,
\* the root logger gets the level named in argv, logger and ux are created
InitStart ==
  /\ pc = "init"
  /\ exitCode' = 0
  /\ LET isJson == includes(argv, Tok_json) \/ isContentTypeJSON(env)
         loglevel == loglevelMatch(argv)
         t == [this EXCEPT !.isJson = isJson]
     IN IF loglevel # <<>> /\ loglevel \notin LEVEL_NAMES
        THEN /\ this' = t
             /\ rootLevel' = rootLevel
             /\ Throw("init", createError("UnrecognizedLoggerLevelName"))
        ELSE /\ rootLevel' = IF loglevel # <<>> THEN loglevel ELSE rootLevel
             /\ this' = initLoggerAndUx(t, rootLevel')
             /\ Continue("init", "parse")
  /\ UNCHANGED <<env, warnings, listeners, flagsConfig, resultColumns, runs,
                 cmd, argv, ret, out, startExit, built, body, flagVars, parseVars, plugin, hookCalls>>

\* the tokens of argv that are not flags
NonFlagTokens(args) == SelectSeq(args, LAMBDA tok : tok[1] # "-")

\* a token that is a boolean flag of the command: --<key>
IsSwitch(tok) ==
  /\ Len(tok) > 2 /\ tok[1] = "-" /\ tok[2] = "-"
  /\ tok # Tok_json
  /\ ~(/\ Len(tok) >= Len(Tok_loglevel)
       /\ SubSeq(tok, 1, Len(Tok_loglevel)) = Tok_loglevel)

\* the name and the value of a flag token: --<key> is a boolean flag that is
\* set, --<key>=<value> an option with its value
OptionName(tok) ==
  IF EqualsAt(tok) = {} THEN SubSeq(tok, 3, Len(tok))
  ELSE SubSeq(tok, 3, Least(EqualsAt(tok)) - 1)
OptionValue(tok) ==
  IF EqualsAt(tok) = {} THEN True
  ELSE Str(SubSeq(tok, Least(EqualsAt(tok)) + 1, Len(tok)))

\* the flags the framework parser returns for argv: json when its token is
\* present, loglevel with its default
ParsedFlags(args) ==
  LET level == loglevelMatch(args)
  IN (IF includes(args, Tok_json) THEN (K_json :> True) ELSE <<>>)
       @@ (K_loglevel :> Str(IF level # <<>> THEN level ELSE DEFAULT_LEVEL))
       @@ [k \in {OptionName(args[i]) :
                    i \in {j \in 1..Len(args) : IsSwitch(args[j])}}
             |-> OptionValue(args[CHOOSE i \in 1..Len(args) :
                                   /\ IsSwitch(args[i])
                                   /\ OptionName(args[i]) = k])]

\* the flag a token of the command line names
FlagOf(tok) ==
  IF tok = Tok_json THEN K_json
  ELSE IF IsSwitch(tok) THEN OptionName(tok)
  ELSE K_loglevel

\* the keys of the object the framework parser returns, in order: the flags
\* of the command line in the order they are given, then loglevel when it
\* comes from its default
RECURSIVE SuppliedKeys(_, _)
SuppliedKeys(args, keys) ==
  IF args = <<>> THEN keys
  ELSE SuppliedKeys(Tail(args),
                    IF Head(args)[1] # "-" \/ includes(keys, FlagOf(Head(args)))
                    THEN keys ELSE Append(keys, FlagOf(Head(args))))
ParsedKeys(args) ==
  LET supplied == SuppliedKeys(args, <<>>)
  IN IF includes(supplied, K_loglevel) THEN supplied
     ELSE Append(supplied, K_loglevel)

\* the static flags getter throwing nothing
flagsGetterError_none(r) == NoError

\* what the static flags getter throws when buildSfdxFlags returned r
flagsGetterError(r) == IF r.ok THEN NoError ELSE createError(r.err)

\* The framework parse: the static flags getter is evaluated, then argv is
\* parsed, strictly unless the command takes varargs; the environment can
\* force flags.json.
Parse ==
  /\ pc = "parse"
  /\ LET r == buildSfdxFlags(flagsConfig[cmd.name],
                [targetdevhubusername |->
                   cmd.supportsDevhubUsername \/ cmd.requiresDevhubUsername,
                 targetusername |->
                   cmd.supportsUsername \/ cmd.requiresUsername])
         strict == ~cmd.varargs.enabled
         rest == NonFlagTokens(argv)
         flags == ParsedFlags(argv)
         keys == ParsedKeys(argv)
         unknown == \E i \in 1..Len(argv) :
                      /\ IsSwitch(argv[i])
                      /\ FlagOf(argv[i]) \notin DOMAIN r.flags
     IN /\ flagsConfig' = [flagsConfig EXCEPT ![cmd.name] = r.config]
        /\ built' = [evaluated |-> TRUE, ok |-> r.ok, err |-> r.err,
                     key |-> r.key]
        /\ IF flagsGetterError(r).def
           THEN /\ this' = this
                /\ Throw("parse", flagsGetterError(r))
           ELSE IF includes(argv, Tok_help)
           THEN /\ this' = this
                /\ Throw("parse", ExitError)
           ELSE IF unknown \/ (strict /\ rest # <<>>)
           THEN /\ this' = this
                /\ Throw("parse", Error(<<"Error">>, 0, "", FALSE))
           ELSE /\ this' = [this EXCEPT
                              !.flags = IF isContentTypeJSON(env)
                                        THEN (K_json :> True) @@ flags
                                        ELSE flags,
                              !.flagKeys =
                                IF isContentTypeJSON(env)
                                     /\ ~includes(keys, K_json)
                                THEN Append(keys, K_json) ELSE keys,
                              !.parsedArgv = rest]
                /\ Continue("parse", "deprecation")
  /\ UNCHANGED <<exitCode, env, rootLevel, warnings, listeners, resultColumns,
                 runs, cmd, argv, ret, out, startExit, body, flagVars, parseVars, plugin, hookCalls>>

\* the property of a flagsConfig object for a key, NoFlag when it has none
lookup(config, key) ==
  IF \E i \in 1..Len(config) : config[i].key = key
  THEN config[CHOOSE i \in 1..Len(config) : config[i].key = key].val
  ELSE NoFlag

\* the warnings in the order in which flagsConfig declares the flags
deprecationWarnings_declarationOrder(command, config, keys) ==
  LET Warned(e) == e.val.deprecated /\ includes(keys, e.key)
      flagged == SelectSeq(config, Warned)
  IN (IF command.deprecated
      THEN <<[key |-> "CommandDeprecation", name |-> <<command.name>>]>>
      ELSE <<>>)
       \o [i \in 1..Len(flagged) |->
             [key |-> "FlagDeprecation", name |-> flagged[i].key]]

\* the warnings of warnIfDeprecated: one for a deprecated command, then one
\* for each key of this.flags, in the order of Object.keys, whose flagsConfig
\* entry carries a deprecation
deprecationWarnings(command, config, keys) ==
  LET Deprecated(key) == lookup(config, key).def /\ lookup(config, key).deprecated
      flagged == SelectSeq(keys, Deprecated)
  IN (IF command.deprecated
      THEN <<[key |-> "CommandDeprecation", name |-> <<command.name>>]>>
      ELSE <<>>)
       \o [i \in 1..Len(flagged) |->
             [key |-> "FlagDeprecation", name |-> flagged[i]]]

\* this.warnIfDeprecated()
WarnIfDeprecated ==
  /\ pc = "deprecation"
  /\ LET w == warn(this, warnings, out,
                   deprecationWarnings(cmd, flagsConfig[cmd.name], this.flagKeys))
     IN /\ warnings' = w.warnings
        /\ out' = w.out
  /\ Continue("deprecation", "varargs")
  /\ UNCHANGED <<exitCode, env, rootLevel, listeners, flagsConfig,
                 resultColumns, runs, cmd, argv, this, ret, startExit, built,
                 body, flagVars, parseVars, plugin, hookCalls>>

\* if (this.statics.varargs) this.varargs = this.parseVarargs(varargs)
Varargs ==
  /\ pc = "varargs"
  /\ IF cmd.varargs.enabled
     THEN LET r == parseVarargs(cmd.varargs, this.parsedArgv)
          IN IF r.ok
             THEN /\ this' = [this EXCEPT !.varargs = r.varargs]
                  /\ Continue("varargs", "aggregate")
             ELSE /\ this' = this
                  /\ Throw("varargs", r.err)
     ELSE /\ this' = this
          /\ Skip("aggregate")
  /\ UNCHANGED <<processVars, cmd, argv, ret, out, startExit, built, body,
                 flagVars, parseVars, plugin, hookCalls>>

\* this.configAggregator = await SfdxConfigAggregator.create(); the
\* aggregator is modelled by the value of its apiVersion entry
Aggregate(apiVersion) ==
  /\ pc = "aggregate"
  /\ this' = [this EXCEPT !.configAggregator = apiVersion]
  /\ Continue("aggregate", "project")
  /\ UNCHANGED <<processVars, cmd, argv, ret, out, startExit, built, body,
                 flagVars, parseVars, plugin, hookCalls>>

\* assignProject rethrowing what SfProject.resolve() throws
AssignProject_noConversion(thrown) ==
  /\ pc = "project"
  /\ IF cmd.requiresProject
     THEN IF ~thrown.def
          THEN /\ this' = [this EXCEPT !.project = "project"]
               /\ Continue("project", "apiVersion")
          ELSE /\ this' = this
               /\ Throw("project", thrown)
     ELSE /\ ~thrown.def
          /\ this' = this
          /\ Skip("apiVersion")
  /\ UNCHANGED <<processVars, cmd, argv, ret, out, startExit, built, body,
                 flagVars, parseVars, plugin, hookCalls>>

\* if (this.statics.requiresProject) await this.assignProject(); thrown is
\* what SfProject.resolve() throws, NoError when it resolves
AssignProject(thrown) ==
  /\ pc = "project"
  /\ IF cmd.requiresProject
     THEN IF ~thrown.def
          THEN /\ this' = [this EXCEPT !.project = "project"]
               /\ Continue("project", "apiVersion")
          ELSE /\ this' = this
               /\ Throw("project",
                        IF thrown.name = <<"InvalidProjectWorkspace">>
                        THEN createError("RequiresProject")
                        ELSE thrown)
     ELSE /\ ~thrown.def
          /\ this' = this
          /\ Skip("apiVersion")
  /\ UNCHANGED <<processVars, cmd, argv, ret, out, startExit, built, body,
                 flagVars, parseVars, plugin, hookCalls>>

\* the warning given even when --apiversion is
ApiVersionWarning_whateverTheFlag ==
  /\ pc = "apiVersion"
  /\ LET overridden == Truthy(this.configAggregator)
         w == warn(this, warnings, out,
                   IF overridden
                   THEN <<[key |-> "ApiVersionOverride",
                           name |-> this.configAggregator.s]>>
                   ELSE <<>>)
     IN /\ warnings' = w.warnings
        /\ out' = w.out
  /\ Continue("apiVersion", "org")
  /\ UNCHANGED <<exitCode, env, rootLevel, listeners, flagsConfig,
                 resultColumns, runs, cmd, argv, this, ret, startExit, built,
                 body, flagVars, parseVars, plugin, hookCalls>>

\* the warning that the configured apiVersion overrides the default
ApiVersionWarning ==
  /\ pc = "apiVersion"
  /\ LET overridden == /\ Truthy(this.configAggregator)
                       /\ ~(K_apiversion \in DOMAIN this.flags
                            /\ Truthy(this.flags[K_apiversion]))
         w == warn(this, warnings, out,
                   IF overridden
                   THEN <<[key |-> "ApiVersionOverride",
                           name |-> this.configAggregator.s]>>
                   ELSE <<>>)
     IN /\ warnings' = w.warnings
        /\ out' = w.out
  /\ Continue("apiVersion", "org")
  /\ UNCHANGED <<exitCode, env, rootLevel, listeners, flagsConfig,
                 resultColumns, runs, cmd, argv, this, ret, startExit, built,
                 body, flagVars, parseVars, plugin, hookCalls>>

\* assignOrg rethrowing what Org.create() throws
AssignOrg_noConversion(thrown) ==
  /\ pc = "org"
  /\ IF cmd.supportsUsername \/ cmd.requiresUsername
     THEN IF ~thrown.def
          THEN /\ this' = [this EXCEPT !.org = "org"]
               /\ Continue("org", "hubOrg")
          ELSE IF cmd.requiresUsername
          THEN /\ this' = this
               /\ Throw("org", thrown)
          ELSE /\ this' = this
               /\ Continue("org", "hubOrg")
     ELSE /\ ~thrown.def
          /\ this' = this
          /\ Skip("hubOrg")
  /\ UNCHANGED <<processVars, cmd, argv, ret, out, startExit, built, body,
                 flagVars, parseVars, plugin, hookCalls>>

\* if (supportsUsername || requiresUsername) await this.assignOrg(); thrown
\* is what Org.create() throws, NoError when it creates the org
AssignOrg(thrown) ==
  /\ pc = "org"
  /\ IF cmd.supportsUsername \/ cmd.requiresUsername
     THEN IF ~thrown.def
          THEN /\ this' = [this EXCEPT !.org = "org"]
               /\ Continue("org", "hubOrg")
          ELSE IF cmd.requiresUsername
          THEN /\ this' = this
               /\ Throw("org",
                        IF thrown.name \in {<<"NoUsernameFound", "Error">>,
                                            <<"AuthInfoCreation", "Error">>}
                        THEN createError("RequiresUsername")
                        ELSE thrown)
          ELSE /\ this' = this
               /\ Continue("org", "hubOrg")
     ELSE /\ ~thrown.def
          /\ this' = this
          /\ Skip("hubOrg")
  /\ UNCHANGED <<processVars, cmd, argv, ret, out, startExit, built, body,
                 flagVars, parseVars, plugin, hookCalls>>

\* if (supportsDevhubUsername || requiresDevhubUsername)
\*   await this.assignHubOrg()
AssignHubOrg(thrown) ==
  /\ pc = "hubOrg"
  /\ IF cmd.supportsDevhubUsername \/ cmd.requiresDevhubUsername
     THEN IF ~thrown.def
          THEN /\ this' = [this EXCEPT !.hubOrg = "hubOrg"]
               /\ Continue("hubOrg", "hooks")
          ELSE IF cmd.requiresDevhubUsername
          THEN /\ this' = this
               /\ Throw("hubOrg",
                        IF thrown.name \in {<<"AuthInfoCreation", "Error">>,
                                            <<"NoUsernameFound", "Error">>}
                        THEN createError("RequiresDevhubUsername")
                        ELSE wrap(thrown))
          ELSE /\ this' = this
               /\ Continue("hubOrg", "hooks")
     ELSE /\ ~thrown.def
          /\ this' = this
          /\ Skip("hooks")
  /\ UNCHANGED <<processVars, cmd, argv, ret, out, startExit, built, body,
                 flagVars, parseVars, plugin, hookCalls>>

\* hook registration that replaces the listeners of earlier invocations
Hooks_replacing ==
  /\ pc = "hooks"
  /\ listeners' = cmd.lifecycleEventNames
  /\ Continue("hooks", "run")
  /\ UNCHANGED <<exitCode, env, rootLevel, warnings, flagsConfig,
                 resultColumns, runs, cmd, argv, this, ret, out, startExit,
                 built, body, flagVars, parseVars, plugin, hookCalls>>

\* await this.hooksFromLifecycleEvent(this.lifecycleEventNames)
Hooks ==
  /\ pc = "hooks"
  /\ listeners' = listeners \o cmd.lifecycleEventNames
  /\ Continue("hooks", "run")
  /\ UNCHANGED <<exitCode, env, rootLevel, warnings, flagsConfig,
                 resultColumns, runs, cmd, argv, this, ret, out, startExit,
                 built, body, flagVars, parseVars, plugin, hookCalls>>

\* return (this.result.data = await this.run())
Run(b) ==
  /\ pc = "run"
  /\ body' = b
  /\ exitCode' = IF b.exitCode # 0 THEN b.exitCode ELSE exitCode
  /\ IF b.throws.def
     THEN /\ this' = this
          /\ Throw("run", b.throws)
     ELSE /\ this' = [this EXCEPT !.result.data = b.value]
          /\ Continue("run", "finally")
  /\ UNCHANGED <<env, rootLevel, warnings, listeners, flagsConfig,
                 resultColumns, runs, cmd, argv, ret, out, startExit, built,
                 flagVars, parseVars, plugin, hookCalls>>

\* error.exitCode || process.exitCode || 1
catchExitCode_errorFirst(current, error) ==
  IF error.exitCode # 0 THEN error.exitCode
  ELSE IF current # 0 THEN current
  ELSE 1

\* process.exitCode || error.exitCode || 1
catchExitCode(current, error) ==
  IF current # 0 THEN current
  ELSE IF error.exitCode # 0 THEN error.exitCode
  ELSE 1

\* userDisplayError
userDisplayError(command, error, set) ==
  [result |-> error.data, status |-> error.exitCode, name |-> error.name,
   exitCode |-> error.exitCode, warnings |-> set,
   commandName |-> command.name]

\* catch(err): an exit signal is thrown again; any other error sets the exit
\* status, is written on one channel and is announced by a cmdError event
Catch ==
  /\ pc = "catch"
  /\ pc' = "finally"
  /\ trace' = Append(trace, "catch")
  /\ IF err.code = "EEXIT"
     THEN UNCHANGED <<exitCode, this, err, out>>
     ELSE LET raw == [err EXCEPT !.name = stripErrorSuffix(err.name)]
              t == initLoggerAndUx(this, rootLevel)
              error == wrap(raw)
              payload == userDisplayError(cmd, error, warnings)
              sendToStdout == getBoolean(env.SFDX_JSON_TO_STDOUT, TRUE)
              shown == ~t.isJson /\ raw.data # ""
              result == [t.result EXCEPT !.data = IF shown THEN raw.data ELSE @]
              written ==
                IF t.isJson
                THEN <<[ch |-> IF sendToStdout THEN "logJson" ELSE "errorJson",
                        arg |-> payload]>>
                ELSE <<[ch |-> "error", arg |-> formatError(cmd, error)]>>
                       \o (IF shown THEN <<display(result)>> ELSE <<>>)
              event == [ch |-> "cmdError",
                        arg |-> [err |-> raw,
                                 flags |-> mergeFlagsAndVarargs(t),
                                 org |-> IF t.org # "" THEN t.org
                                         ELSE t.hubOrg]]
          IN /\ err' = raw
             /\ this' = [t EXCEPT !.result = result]
             /\ exitCode' = catchExitCode(exitCode, error)
             /\ out' = (out \o written) \o <<event>>
  /\ UNCHANGED <<env, rootLevel, warnings, listeners, flagsConfig,
                 resultColumns, runs, cmd, argv, ret, startExit, built,
                 body, flagVars, parseVars, plugin, hookCalls>>

\* the success payload with a warnings key in every case
getJsonResultObject_alwaysWarnings(result, status, set) ==
  [status |-> status, result |-> result.data, warnings |-> set]

\* getJsonResultObject(), with the warnings when there are any
getJsonResultObject(result, status, set) ==
  IF set = <<>>
  THEN [status |-> status, result |-> result.data]
  ELSE [status |-> status, result |-> result.data, warnings |-> set]

\* _run returning undefined after an exit signal as after any other error
settle_swallowsExit(t, e) ==
  IF ~e.def THEN [kind |-> "value", value |-> t.result.data]
  ELSE [kind |-> "undefined", value |-> ""]

\* _run rejecting whenever an error was thrown
settle_rejects(t, e) ==
  IF ~e.def THEN [kind |-> "value", value |-> t.result.data]
  ELSE [kind |-> "rejected", value |-> ""]

\* How the promise of _run settles: with the value assigned to result.data,
\* with the exit signal catch threw again, or with undefined.
settle(t, e) ==
  IF ~e.def THEN [kind |-> "value", value |-> t.result.data]
  ELSE IF e.code = "EEXIT" THEN [kind |-> "rejected", value |-> ""]
  ELSE [kind |-> "undefined", value |-> ""]

\* finally displaying the result in human mode whatever the outcome
Finally_displaysAfterAnError ==
  /\ pc = "finally"
  /\ pc' = "done"
  /\ trace' = Append(trace, "finally")
  /\ IF ~err.def \/ ~this.isJson
     THEN out' = Append(out,
                      IF this.isJson
                      THEN [ch |-> "logJson",
                            arg |-> getJsonResultObject(this.result, exitCode,
                                                        warnings)]
                      ELSE display(this.result))
     ELSE out' = out
  /\ ret' = settle(this, err)
  /\ UNCHANGED <<processVars, cmd, argv, this, err, startExit, built,
                 body, flagVars, parseVars, plugin, hookCalls>>

\* finally(err), and the settling of the promise _run returned
Finally ==
  /\ pc = "finally"
  /\ pc' = "done"
  /\ trace' = Append(trace, "finally")
  /\ IF ~err.def
     THEN out' = Append(out,
                      IF this.isJson
                      THEN [ch |-> "logJson",
                            arg |-> getJsonResultObject(this.result, exitCode,
                                                        warnings)]
                      ELSE display(this.result))
     ELSE out' = out
  /\ ret' = settle(this, err)
  /\ UNCHANGED <<processVars, cmd, argv, this, err, startExit, built,
                 body, flagVars, parseVars, plugin, hookCalls>>

\* the caller of _run has the outcome and drops the command instance
Release ==
  /\ pc = "done"
  /\ pc' = "idle"
  /\ cmd' = NoCommand
  /\ argv' = <<>>
  /\ this' = NewInstance
  /\ err' = NoError
  /\ ret' = NoReturn
  /\ out' = <<>>
  /\ trace' = <<>>
  /\ startExit' = FALSE
  /\ built' = NotBuilt
  /\ body' = NoBody
  /\ UNCHANGED <<processVars, flagVars, parseVars, plugin, hookCalls>>

Next ==
  \/ \E i \in Invocations(plugin) : Invoke(i[1], i[2])
  \/ InitStart
  \/ Parse
  \/ WarnIfDeprecated
  \/ Varargs
  \/ \E v \in ApiVersions : Aggregate(v)
  \/ \E e \in ProjectErrors \cup {NoError} : AssignProject(e)
  \/ ApiVersionWarning
  \/ \E e \in OrgFailures(plugin) \cup {NoError} : AssignOrg(e)
  \/ \E e \in OrgFailures(plugin) \cup {NoError} : AssignHubOrg(e)
  \/ Hooks
  \/ \E b \in Bodies : Run(b)
  \/ Catch
  \/ Finally
  \/ Release

Spec == Init /\ [][Next]_vars

\* the invocations of a deprecated command with deprecated flags
InitLegacy == Start("legacy")

SpecLegacy == InitLegacy /\ [][Next]_vars

\* Lifecycle.emit(eventName, result) while a body runs: every listener
\* registered for the event is called, and each one calls
\* this.config.runHook(eventName, ...) once
Emit(eventName) ==
  /\ pc = "run"
  /\ hookCalls.n < MaxFirings
  /\ LET Registered(name) == name = eventName
         called == SelectSeq(listeners, Registered)
     IN hookCalls' = [n |-> hookCalls.n + 1, event |-> eventName,
                      calls |-> [i \in 1..Len(called) |-> called[i]]]
  /\ UNCHANGED <<flagVars, processVars, runVars, parseVars, plugin>>

NextHooks ==
  \/ Next
  \/ \E e \in EventNames : Emit(e)

\* the invocations of commands that declare lifecycle events
InitHooks == Start("hooks")

SpecHooks == InitHooks /\ [][NextHooks]_vars

\* the invocations of a command that takes the apiversion flag
InitApi == Start("api")

SpecApi == InitApi /\ [][Next]_vars

\* the invocations of commands that support or require an org or a dev hub
InitOrg == Start("org")

SpecOrg == InitOrg /\ [][Next]_vars

(***************************************************************************)
(* Properties of the flag-set builder (checked under SpecFlags).           *)
(***************************************************************************)
\* the keys of the flagsConfig properties, and of those that hold an object
AllKeys(config) == {config[i].key : i \in 1..Len(config)}
DefinedKeys(config) ==
  {config[i].key : i \in {j \in 1..Len(config) : config[j].val.def}}

ToggleKeys(toggles) ==
  (IF toggles.targetusername THEN {K_targetusername} ELSE {})
  \cup (IF toggles.targetdevhubusername THEN {K_targetdevhubusername} ELSE {})
  \cup (IF toggles.targetusername \/ toggles.targetdevhubusername
        THEN {K_apiversion} ELSE {})

\* C7 (as amended): a flag set that buildSfdxFlags returns has exactly the
\* keys json and loglevel, targetusername iff its toggle is set,
\* targetdevhubusername iff its toggle is set, apiversion iff one of the two
\* toggles is set, and the keys of the flagsConfig properties whose value is
\* not undefined; with only the targetusername toggle set it never contains
\* targetdevhubusername.
C7_KeySet ==
  \A n \in 1..Len(fbuilt) :
    fbuilt[n].ok =>
      /\ DOMAIN fbuilt[n].flags =
           {K_json, K_loglevel} \cup ToggleKeys(ftoggles)
             \cup DefinedKeys(fdeclared)
      /\ (ftoggles.targetusername /\ ~ftoggles.targetdevhubusername
            => K_targetdevhubusername \notin DOMAIN fbuilt[n].flags)

\* C7 witness: a build with only the targetusername toggle set returned a
\* flag set for a flagsConfig holding a custom flag and an undefined property.
C7_Witness ==
  /\ Len(fbuilt) >= 1
  /\ fbuilt[1].ok
  /\ ftoggles.targetusername /\ ~ftoggles.targetdevhubusername
  /\ Len(fdeclared) = 2
  /\ fdeclared[1].val.def /\ ~fdeclared[2].val.def
  /\ K_apiversion \in DOMAIN fbuilt[1].flags

\* C7 as stated: the key set contains every key of flagsConfig.
C7_Original ==
  \A n \in 1..Len(fbuilt) :
    fbuilt[n].ok =>
      DOMAIN fbuilt[n].flags =
        {K_json, K_loglevel} \cup ToggleKeys(ftoggles) \cup AllKeys(fdeclared)

\* C8 as stated: two calls of buildSfdxFlags with the same flagsConfig object
\* and the same toggles have the same outcome: structurally identical flag
\* sets (same keys, and per key the same kind, type, char and descriptions).
C8_Idempotent ==
  Len(fbuilt) >= 2 =>
    /\ fbuilt[1].ok = fbuilt[2].ok
    /\ fbuilt[1].flags = fbuilt[2].flags

\* a property of flagsConfig that holds a flag object that is not a builtin
\* marker
IsCustomEntry(e) == e.val.def /\ e.val.type # T_builtin

\* ^[a-z0-9][a-z0-9-]*$
ClaimedNamePattern(key) ==
  /\ Len(key) >= 1
  /\ key[1] \in Lower \cup Digit
  /\ \A i \in 1..Len(key) : key[i] \in Lower \cup Digit \cup {"-"}

\* as ClaimedNamePattern, and not made of digits only
AmendedNamePattern(key) ==
  /\ ClaimedNamePattern(key)
  /\ \E i \in 1..Len(key) : key[i] \notin Digit

\* C9 (as amended): a non-builtin flagsConfig entry passes the flag-name check
\* iff its key matches ^[a-z0-9][a-z0-9-]*$ and is not made of digits only.
\* A flagsConfig with a non-builtin entry whose key does not pass makes
\* buildSfdxFlags fail, with InvalidFlagName for that key unless an earlier
\* entry already failed, whatever the flag's kind and attributes; an entry
\* declared as a builtin marker never fails the flag-name check.
C9_NameCheck ==
  /\ Len(fbuilt) >= 1 =>
       \A i \in 1..Len(fdeclared) :
         IsCustomEntry(fdeclared[i]) /\ ~AmendedNamePattern(fdeclared[i].key)
           => /\ ~fbuilt[1].ok
              /\ \/ /\ fbuilt[1].err = "InvalidFlagName"
                    /\ fbuilt[1].key = fdeclared[i].key
                 \/ \E j \in 1..(i - 1) : fbuilt[1].key = fdeclared[j].key
  /\ \A n \in 1..Len(fbuilt) :
       ~fbuilt[n].ok /\ fbuilt[n].err = "InvalidFlagName"
         => \E i \in 1..Len(fdeclared) :
              /\ fdeclared[i].key = fbuilt[n].key
              /\ IsCustomEntry(fdeclared[i])
              /\ ~AmendedNamePattern(fbuilt[n].key)

\* C9 witness: a build failed with InvalidFlagName for a boolean flag whose
\* key is made of digits only.
C9_Witness ==
  /\ Len(fbuilt) >= 1
  /\ Len(fdeclared) = 1
  /\ fdeclared[1].val.kind = Str(<<"boolean">>)
  /\ fdeclared[1].key = <<"1", "1">>
  /\ ~fbuilt[1].ok
  /\ fbuilt[1].err = "InvalidFlagName"

\* C9 as stated: a non-builtin entry fails with InvalidFlagName iff its key
\* does not match ^[a-z0-9][a-z0-9-]*$.
C9_Original ==
  Len(fbuilt) >= 1 /\ Len(fdeclared) = 1 /\ IsCustomEntry(fdeclared[1])
    => ((~fbuilt[1].ok /\ fbuilt[1].err = "InvalidFlagName")
          <=> ~ClaimedNamePattern(fdeclared[1].key))

(***************************************************************************)
(* Properties of an invocation (checked under Spec).                       *)
(***************************************************************************)
\* the positions in out of the calls on a channel
Calls(ch) == {i \in 1..Len(out) : out[i].ch = ch}

\* _run has settled: without an error, with an error that is not an exit
\* signal, with an exit signal
Succeeded == pc = "done" /\ ~err.def
Failed == pc = "done" /\ err.def /\ err.code # "EEXIT"
Exited == pc = "done" /\ err.def /\ err.code = "EEXIT"

\* JSON mode as the specification defines it
JsonMode ==
  \/ \E i \in 1..Len(argv) : argv[i] = <<"-", "-", "j", "s", "o", "n">>
  \/ /\ isString(env.SFDX_CONTENT_TYPE)
     /\ toUpperCase(env.SFDX_CONTENT_TYPE.s) = <<"J", "S", "O", "N">>

\* SFDX_JSON_TO_STDOUT is true or unset
JsonToStdout ==
  \/ ~isString(env.SFDX_JSON_TO_STDOUT)
  \/ toUpperCase(env.SFDX_JSON_TO_STDOUT.s) = <<"T", "R", "U", "E">>

\* C1: when the body returned normally, JSON mode gives exactly one logJson
\* call, whose payload has the exit status and the body's return value, and
\* no display; otherwise display is called exactly once and neither logJson
\* nor errorJson is called.
C1_SuccessOutput ==
  Succeeded =>
    IF JsonMode
    THEN /\ Cardinality(Calls("logJson")) = 1
         /\ \A i \in Calls("logJson") :
              /\ out[i].arg.result = body.value
              /\ out[i].arg.status = exitCode
         /\ Calls("display") = {}
         /\ Calls("errorJson") = {}
    ELSE /\ Cardinality(Calls("display")) = 1
         /\ Calls("logJson") = {}
         /\ Calls("errorJson") = {}

\* C1 happens: a command succeeded in JSON mode because of the environment
\* alone, with its JSON payload written
C1_Witness ==
  /\ Succeeded
  /\ body.ran
  /\ ~includes(argv, Tok_json)
  /\ JsonMode
  /\ Calls("logJson") # {}

\* C2: the invocation returns the body's return value, which is also
\* result.data, when the body completes; it returns undefined when a stage
\* fails with an error that is not an exit signal; after a success whose
\* body set no exit status the exit status is 0 whatever it was before.
C2_ReturnValue ==
  /\ (pc = "done" /\ body.ran /\ ~body.throws.def) =>
       /\ ret = [kind |-> "value", value |-> body.value]
       /\ this.result.data = body.value
       /\ (body.exitCode = 0 => exitCode = 0)
  /\ Failed => ret = [kind |-> "undefined", value |-> ""]

\* C2 happens: a success that started with a nonzero exit status
C2_Witness ==
  /\ Succeeded
  /\ startExit
  /\ body.exitCode = 0
  /\ ret.kind = "value"

C4_ErrorOutput ==
  Failed =>
    IF JsonMode
    THEN /\ Calls("error") = {}
         /\ IF JsonToStdout
            THEN Cardinality(Calls("logJson")) = 1 /\ Calls("errorJson") = {}
            ELSE Cardinality(Calls("errorJson")) = 1 /\ Calls("logJson") = {}
    ELSE /\ Cardinality(Calls("error")) = 1
         /\ \A i \in Calls("error") :
              out[i].arg = <<"ERROR running ", cmd.name, ": ">> \o err.name
         /\ Calls("logJson") = {}
         /\ Calls("errorJson") = {}

\* C4 happens: a JSON-mode failure written to stderr
C4_Witness ==
  /\ Failed
  /\ JsonMode
  /\ Calls("errorJson") # {}

\* the flags and the varargs of the instance in one object, a vararg winning
\* over a flag of the same name
FlagsWithVarargs ==
  [k \in DOMAIN this.flags \cup DOMAIN this.varargs |->
     IF k \in DOMAIN this.varargs THEN this.varargs[k] ELSE this.flags[k]]

\* the calls that write an error
ErrorCalls == Calls("logJson") \cup Calls("errorJson") \cup Calls("error")

\* C5: a failure that is not an exit signal emits cmdError exactly once,
\* after the error was written, with the error as it was thrown (not
\* wrapped), the parsed flags merged with the varargs, and the org if one is
\* bound, else the hub org; a failure by an exit signal and a success emit
\* no cmdError.
C5_CmdError ==
  /\ Failed =>
       /\ Cardinality(Calls("cmdError")) = 1
       /\ \A i \in Calls("cmdError") :
            /\ i = Len(out)
            /\ \E j \in ErrorCalls : j < i
            /\ out[i].arg.err = err
            /\ body.ran => out[i].arg.err.sf = body.throws.sf
            /\ out[i].arg.flags = FlagsWithVarargs
            /\ out[i].arg.org = IF this.org # "" THEN this.org ELSE this.hubOrg
  /\ (Succeeded \/ Exited) => Calls("cmdError") = {}

\* C5 happens: a failure with varargs parsed, an org bound and no hub org
C5_Witness ==
  /\ Failed
  /\ DOMAIN this.varargs # {}
  /\ this.org # ""
  /\ this.hubOrg = ""
  /\ Calls("cmdError") # {}

\* C5 as the specification states it: every invocation that ends with an
\* error emits cmdError exactly once
C5_Original ==
  (pc = "done" /\ err.def) => Cardinality(Calls("cmdError")) = 1

\* the stages of an invocation in their order
Stages ==
  <<"init", "parse", "deprecation", "varargs", "aggregate", "project",
    "apiVersion", "org", "hubOrg", "hooks", "run", "catch", "finally">>

StageIndex(stage) == CHOOSE i \in 1..Len(Stages) : Stages[i] = stage

\* the stages of init that the command of this invocation has
StagesOf(command) ==
  {"init", "parse", "deprecation", "aggregate", "apiVersion", "hooks"}
    \cup (IF command.varargs.enabled THEN {"varargs"} ELSE {})
    \cup (IF command.requiresProject THEN {"project"} ELSE {})
    \cup (IF command.supportsUsername \/ command.requiresUsername
          THEN {"org"} ELSE {})
    \cup (IF command.supportsDevhubUsername \/ command.requiresDevhubUsername
          THEN {"hubOrg"} ELSE {})

\* C6: the stages of an invocation run in the order parse, deprecation,
\* varargs, aggregation, project, API-version warning, org, hub org, hooks,
\* body; none runs twice; the body runs only after every stage the command
\* has; once a stage has failed only catch and finally run.
C6_StageOrder ==
  /\ \A i \in 1..(Len(trace) - 1) :
       StageIndex(trace[i]) < StageIndex(trace[i + 1])
  /\ \A i \in 1..Len(trace) :
       trace[i] = "run" => StagesOf(cmd) = {trace[j] : j \in 1..(i - 1)}
  /\ err.def => pc \in {"catch", "finally", "done"}
  /\ \A i \in 1..Len(trace) :
       trace[i] = "catch" =>
         /\ i > 1
         /\ err.def
         /\ \A j \in (i + 1)..Len(trace) : trace[j] = "finally"

\* C6 happens: a command with a project, an org, varargs and hooks ran its
\* body
C6_Witness ==
  /\ pc = "done"
  /\ cmd.requiresProject
  /\ cmd.varargs.enabled
  /\ Len(trace) = 11
  /\ trace[10] = "run"

\* the names of the errors of the flag specifications
FlagSpecErrors ==
  {"InvalidFlagName", "InvalidFlagChar", "MissingOrInvalidFlagDescription",
   "InvalidLongDescriptionFormat", "UnknownBuiltinFlagType"}

\* C10: an invocation evaluates the flag specifications in its parse stage;
\* when they are invalid the error is thrown there, the body does not run,
\* and catch reports it: exit status 1, undefined returned, the error
\* written once and announced by cmdError under its name.
C10_ReportedByCatch ==
  (built.evaluated /\ ~built.ok) =>
    /\ built.err \in FlagSpecErrors
    /\ err.def
    /\ err.name \in {<<built.err, "Error">>, <<built.err>>}
    /\ ~body.ran
    /\ trace[2] = "parse"
    /\ pc \in {"catch", "finally", "done"}
    /\ pc = "done" =>
         /\ exitCode = 1
         /\ ret.kind = "undefined"
         /\ Cardinality(ErrorCalls) = 1
         /\ \A i \in Calls("cmdError") : out[i].arg.err.name = <<built.err>>
         /\ Calls("cmdError") # {}

\* C10 happens: an invocation of a command with an invalid flag name ended
\* with the error written
C10_Witness ==
  /\ pc = "done"
  /\ built.evaluated
  /\ built.err = "InvalidFlagName"
  /\ ErrorCalls # {}

\* C10 as the specification states it: catch never reports an error of the
\* flag specifications
C10_Original ==
  \A i \in Calls("cmdError") :
    \A e \in FlagSpecErrors : out[i].arg.err.name # <<e>>

\* the attributes a caller can put on a builtin marker
SuppliedOrDefault(key, marker, flag) ==
  /\ flag.char = IF marker.char # Undefined THEN marker.char
                  ELSE BuiltinDefault(key, NoFlag).char
  /\ flag.description =
       IF marker.description # Undefined THEN marker.description
       ELSE BuiltinDefault(key, NoFlag).description
  /\ flag.longDescription =
       IF marker.longDescription # Undefined THEN marker.longDescription
       ELSE BuiltinDefault(key, NoFlag).longDescription

\* C11: the flag built for a builtin marker has the caller's value for each
\* of char, description and longDescription that the marker carries, and
\* the platform default's value for each it does not carry.
C11_BuiltinOverrides ==
  (Len(fbuilt) >= 1 /\ fbuilt[1].ok) =>
    \A i \in 1..Len(fdeclared) :
      (fdeclared[i].val.def /\ isBuiltin(fdeclared[i].val)) =>
        SuppliedOrDefault(fdeclared[i].key, fdeclared[i].val,
                          fbuilt[1].flags[fdeclared[i].key])

(***************************************************************************)
(* Claims about the parse functions of the flag kinds.                     *)
(***************************************************************************)
NumberCall == pflag.def /\ pflag.kind \in NumberKinds /\ pcall.def

\* the bound as a number of the flag's unit, when the definition has one
BoundNumber(b) == IF isNumber(b) THEN b ELSE b.quantity
BelowMin(v) == pflag.min # Null /\ v.h < BoundNumber(pflag.min).h
AboveMax(v) == pflag.max # Null /\ v.h > BoundNumber(pflag.max).h

\* a raw value is well formed for the flag when it is a decimal numeral, an
\* integer one for every kind but number, that the validator of the
\* definition (if any) accepts
WellFormed ==
  /\ ~toNumber(pcall.val).nan
  /\ pflag.kind # "number" => toNumber(pcall.val).h % Scale = 0
  /\ "validate" \in DOMAIN pflag => toValidatorFn(pflag.validate, pcall.val)

BoundsMessage(relation, bound, v) ==
  <<"Expected", <<pflag.kind>>, relation, numberToString(BoundNumber(bound)),
    "but received", numberToString(v)>>

ArrayCall == pflag.def /\ pflag.kind = "array" /\ pcall.def
Elements == convertArrayFlagToArray(pcall.val, delimiterOf(pflag))
Mapped ==
  IF "map" \in DOMAIN pflag
  THEN [i \in 1..Len(Elements) |-> parseInt(Elements[i])]
  ELSE Elements
Allowed(v) ==
  (IF "map" \in DOMAIN pflag THEN v ELSE Str(v)) \in pflag.options
ValidatorRefuses(val) ==
  "validate" \in DOMAIN pflag /\ ~toValidatorFn(pflag.validate, val)
InvalidFlagType(correct) ==
  Thrown("InvalidFlagTypeError",
         [key |-> "error.InvalidFlagType",
          tokens |-> <<pcall.val, pflag.kind, correct>>])
StructureRefuses ==
  LET v == toNumber(pcall.val)
  IN v.nan \/ (pflag.kind # "number" /\ v.h % Scale # 0)

\* C13: the failure reported is that of the earliest failing check: for a
\* numeric flag the validator, then integer-ness or finiteness, then the
\* bounds; an array value with an invalid element and an element outside
\* the allow-list fails with the error of the elements ("Must only contain
\* valid values."), not with that of the allow-list.
C13_CheckOrder ==
  /\ NumberCall =>
       IF ValidatorRefuses(pcall.val) \/ StructureRefuses
       THEN pcall.res = InvalidFlagType(<<>>)
       ELSE \/ pcall.res.ok
            \/ pcall.res.name = "InvalidFlagNumericBoundsError"
  /\ ArrayCall =>
       ((/\ \E i \in 1..Len(Elements) : ValidatorRefuses(Elements[i])
         /\ pflag.options # {}
         /\ \E i \in 1..Len(Mapped) : ~Allowed(Mapped[i]))
        => pcall.res =
             InvalidFlagType(<<"error.FormattingMessageArrayValue">>))

\* the structure of a raw value: the token sequences it is written from
Readings ==
  {ts \in TokenSeqs(delimiterOf(pflag)) :
     JoinTokens(ts, delimiterOf(pflag)) = pcall.val}

\* C14 as the specification states it: every token of a raw value with
\* matched quotes, quoted or not, is one element of the output, without its
\* quotes and in input order
C14_Original ==
  ArrayCall =>
    \A ts \in Readings :
      Elements = [i \in 1..Len(ts) |-> trim(ts[i].text)]

NotEmpty(token) == token.text # <<>>

\* C14: for a raw value with matched quotes, the output is made of the
\* tokens whose text is not empty, each as one element, without its quotes,
\* trimmed, in input order; a delimiter inside quotes never splits
C14_QuotedTokens ==
  ArrayCall =>
    \A ts \in Readings :
      LET kept == SelectSeq(ts, NotEmpty)
      IN Elements = [i \in 1..Len(kept) |-> trim(kept[i].text)]

\* a double-quoted token holding the delimiter, followed by a single-quoted
\* one
C14_Witness ==
  /\ ArrayCall
  /\ \E ts \in Readings :
       /\ Len(ts) = 2
       /\ ts[1] = Quoted(DoubleQuote,
                         <<"1", delimiterOf(pflag), Space, "c">>)
       /\ ts[2] = Quoted(SingleQuote, <<delimiterOf(pflag)>>)
  /\ pcall.res.ok

\* C15: every element the tokenizer returns is non-empty and has neither
\* leading nor trailing whitespace
C15_Elements ==
  ArrayCall =>
    \A i \in 1..Len(Elements) :
      /\ Elements[i] # <<>>
      /\ Elements[i][1] # Space
      /\ Elements[i][Len(Elements[i])] # Space

(***************************************************************************)
(* Claims about parseVarargs.                                              *)
(***************************************************************************)
WellFormedToken(arg) == Cardinality(EqualsAt(arg)) = 1
NameOf(arg) == SubSeq(arg, 1, Least(EqualsAt(arg)) - 1)
ValueOf(arg) == SubSeq(arg, Least(EqualsAt(arg)) + 1, Len(arg))
AllWellFormed == \A i \in 1..Len(vcall.args) : WellFormedToken(vcall.args[i])
SameName ==
  \E i, j \in 1..Len(vcall.args) :
    i < j /\ NameOf(vcall.args[i]) = NameOf(vcall.args[j])
VarargsError(key) == ~vcall.res.ok /\ vcall.res.err.name = <<key, "Error">>

\* C16: a list of well-formed tokens two of which have the same name makes
\* parseVarargs fail with DuplicateVarargs, whatever their values, an empty
\* value included (the configuration has no validator here, so that an
\* empty value is not refused for itself); a successful result has one
\* entry per token, holding that token's value.
C16_Duplicates ==
  (vcall.def /\ AllWellFormed /\ ~vconfig.validator) =>
    /\ SameName => VarargsError("DuplicateVarargs")
    /\ vcall.res.ok =>
         /\ Cardinality(DOMAIN vcall.res.varargs) = Len(vcall.args)
         /\ \A i \in 1..Len(vcall.args) :
              vcall.res.varargs[NameOf(vcall.args[i])] =
                IF ValueOf(vcall.args[i]) = <<>> THEN Undefined
                ELSE Str(ValueOf(vcall.args[i]))

\* the error of this invocation is the one parseVarargs names `key`
ErrorIs(key) == err.def /\ err.name \in {<<key, "Error">>, <<key>>}
Malformed(args) == {k \in 1..Len(args) : ~WellFormedToken(args[k])}

\* the tokens before position k are well formed, have different names and
\* pass the validator of the command, if it has one
CleanBefore(args, k) ==
  \A j \in 1..(k - 1) :
    /\ WellFormedToken(args[j])
    /\ (~cmd.varargs.isBoolean /\ cmd.varargs.validator)
         => ValueOf(args[j]) # <<>>
    /\ \A i \in 1..(j - 1) : NameOf(args[i]) # NameOf(args[j])

Ran(s) == \E i \in 1..Len(trace) : trace[i] = s

\* the deprecation warnings this invocation has written with ux.warn
IsDeprecationCall(c) ==
  c.ch = "warn" /\ c.message.key \in {"CommandDeprecation", "FlagDeprecation"}
DeprecationCalls ==
  LET calls == SelectSeq(out, IsDeprecationCall)
  IN [i \in 1..Len(calls) |-> calls[i].message]
CommandWarning == [key |-> "CommandDeprecation", name |-> <<cmd.name>>]
FlagWarning(k) == [key |-> "FlagDeprecation", name |-> k]

\* the flags of the command that carry a deprecation definition, and those
\* of them the command line supplies
DeprecatedKeys ==
  {flagsConfig[cmd.name][i].key :
     i \in {j \in 1..Len(flagsConfig[cmd.name]) :
              flagsConfig[cmd.name][j].val.deprecated}}
SuppliedDeprecated == {k \in DeprecatedKeys : k \in DOMAIN this.flags}
Occurrences(seq, v) == Cardinality({i \in 1..Len(seq) : seq[i] = v})

\* the position of the first token of the command line that names flag k,
\* and the position of k among the flags the command declares
ArgvIndex(k) == Least({i \in 1..Len(argv) : argv[i] = <<"-", "-">> \o k})
DeclarationIndex(k) ==
  Least({i \in 1..Len(flagsConfig[cmd.name]) :
           flagsConfig[cmd.name][i].key = k})

\* what the deprecation check writes, the order of the flag warnings left
\* open: with a logger that logs warnings and a ux that writes, one command
\* warning first when the command is deprecated, then one warning for each
\* deprecated flag supplied and no other; in JSON mode the same messages
\* are in UX.warnings; above level warn nothing; the check does not fail
\* and comes before the body
DeprecationContract(Index(_)) ==
  Ran("deprecation") =>
    LET w == DeprecationCalls
        first == IF cmd.deprecated THEN 1 ELSE 0
    IN /\ (shouldLogWarn(this.logger) /\ this.ux = "enabled") =>
            /\ Len(w) = first + Cardinality(SuppliedDeprecated)
            /\ cmd.deprecated => w[1] = CommandWarning
            /\ \A k \in DeprecatedKeys :
                 Occurrences(w, FlagWarning(k)) =
                   IF k \in SuppliedDeprecated THEN 1 ELSE 0
            /\ \A i, j \in (first + 1)..Len(w) :
                 i < j => Index(w[i].name) < Index(w[j].name)
       /\ (shouldLogWarn(this.logger) /\ this.ux = "disabled") =>
            /\ w = <<>>
            /\ cmd.deprecated => includes(warnings, CommandWarning)
            /\ \A k \in SuppliedDeprecated :
                 includes(warnings, FlagWarning(k))
       /\ ~shouldLogWarn(this.logger) => w = <<>>
       /\ \A i \in 1..(Len(trace) - 1) :
            trace[i] = "deprecation" => trace[i + 1] # "catch"
       /\ (trace[Len(trace)] = "deprecation") => ~err.def
       /\ \A i \in 1..Len(trace) :
            trace[i] = "run" => \E j \in 1..(i - 1) : trace[j] = "deprecation"

NotAuthenticated ==
  {<<"NoUsernameFound", "Error">>, <<"AuthInfoCreation", "Error">>}

\* the step is a failure of a required resolution: the error handed to
\* catch is the one named `key` when e is a not-authenticated error, and e
\* itself (its name and message) otherwise, and nothing is bound
RequiredFails(e, key, bound) ==
  /\ pc' = "catch"
  /\ err'.def
  /\ err'.name = (IF e.name \in NotAuthenticated THEN <<key, "Error">>
                  ELSE e.name)
  /\ (e.name \notin NotAuthenticated) => err'.data = e.data
  /\ bound = ""

\* the step swallows the failure of a supported resolution: the invocation
\* goes on with the next stage, without an error and with nothing bound
SupportedFails(next, bound) ==
  /\ pc' = next
  /\ ~err'.def
  /\ bound = ""

\* C19: when Org.create() fails for the primary org, a command with
\* requiresUsername hands RequiresUsername to catch for NoUsernameFound and
\* AuthInfoCreation and the error itself for any other, and its body does
\* not run; a command with supportsUsername only goes on, and its body runs
\* with no org bound; the dev hub behaves the same way with
\* RequiresDevhubUsername.
C19_OrgFailure ==
  /\ [][\A e \in OrgFailures(plugin) :
          /\ AssignOrg(e) =>
               IF cmd.requiresUsername
               THEN RequiredFails(e, "RequiresUsername", this'.org)
               ELSE SupportedFails("hubOrg", this'.org)
          /\ AssignHubOrg(e) =>
               IF cmd.requiresDevhubUsername
               THEN RequiredFails(e, "RequiresDevhubUsername", this'.hubOrg)
               ELSE SupportedFails("hooks", this'.hubOrg)]_vars
  /\ [](/\ (cmd.requiresUsername /\ Ran("org") /\ this.org = "") =>
             /\ ~body.ran /\ ~Ran("hubOrg") /\ ~Ran("run")
             /\ pc = "catch" \/ Ran("catch")
        /\ (cmd.requiresDevhubUsername /\ Ran("hubOrg") /\ this.hubOrg = "")
             => /\ ~body.ran /\ ~Ran("hooks") /\ ~Ran("run")
                /\ pc = "catch" \/ Ran("catch")
        /\ (body.ran /\ cmd.requiresUsername) => this.org # ""
        /\ (body.ran /\ cmd.requiresDevhubUsername) => this.hubOrg # "")

\* a command that requires an org has settled after catch handled
\* RequiresUsername, its body not run
C19_Witness ==
  /\ pc = "done"
  /\ cmd.requiresUsername
  /\ Ran("org") /\ this.org = ""
  /\ ErrorIs("RequiresUsername")
  /\ ~body.ran

\* the step re-raises e: catch is next, with the name of e
Reraised(e) == pc' = "catch" /\ err'.def /\ err'.name = e.name

\* C20: a command that supports but does not require an org (a dev hub)
\* swallows NoUsernameFound and AuthInfoCreation raised by Org.create();
\* every other error is re-raised and reaches catch.
C20_SupportsRethrows ==
  [][\A e \in OrgFailures(plugin) :
       /\ (AssignOrg(e) /\ ~cmd.requiresUsername) =>
            IF e.name \in NotAuthenticated
            THEN SupportedFails("hubOrg", this'.org)
            ELSE Reraised(e)
       /\ (AssignHubOrg(e) /\ ~cmd.requiresDevhubUsername) =>
            IF e.name \in NotAuthenticated
            THEN SupportedFails("hooks", this'.hubOrg)
            ELSE Reraised(e)]_vars

\* ---------------------------------------------------------------------
\* Claims about the project

\* C21: for a command with requiresProject, a failure of SfProject.resolve()
\* named InvalidProjectWorkspace reaches catch as RequiresProject and any
\* other failure reaches it unchanged; the body does not run, the org is not
\* resolved, and the invocation ends with a nonzero exit status and one
\* error written; a command without requiresProject never resolves a
\* project.
C21_ProjectFailure ==
  /\ [][\A e \in ProjectErrors :
          AssignProject(e) =>
            /\ cmd.requiresProject
            /\ pc' = "catch"
            /\ IF e.name = <<"InvalidProjectWorkspace">>
               THEN err'.def /\ err'.name = <<"RequiresProject", "Error">>
               ELSE err' = e
            /\ this'.project = ""]_vars
  /\ [](/\ (cmd.requiresProject /\ Ran("project") /\ this.project = "") =>
             /\ err.def
             /\ ~body.ran /\ ~Ran("run")
             /\ ~Ran("org") /\ ~Ran("hubOrg") /\ this.org = ""
             /\ pc = "done" =>
                  /\ exitCode # 0
                  /\ Cardinality(ErrorCalls) = 1
                  /\ Ran("catch")
        /\ ~cmd.requiresProject => ~Ran("project") /\ this.project = "")

\* a command that requires a project has settled after catch handled
\* RequiresProject: one error written, exit status not zero, body not run
C21_Witness ==
  /\ pc = "done"
  /\ cmd.requiresProject
  /\ Ran("project") /\ this.project = ""
  /\ ErrorIs("RequiresProject")
  /\ exitCode # 0
  /\ Cardinality(ErrorCalls) = 1
  /\ ~body.ran

\* ---------------------------------------------------------------------
\* Claims about the warnings and the JSON payload

\* the positions in out of the JSON payloads, and the warnings of a payload
Payloads == Calls("logJson") \cup Calls("errorJson")
PayloadWarnings(i) ==
  IF "warnings" \in DOMAIN out[i].arg
  THEN {out[i].arg.warnings[j] : j \in 1..Len(out[i].arg.warnings)}
  ELSE {}

\* the configured apiVersion overrides the default in this invocation
Overridden ==
  /\ Truthy(this.configAggregator)
  /\ ~(K_apiversion \in DOMAIN this.flags /\ Truthy(this.flags[K_apiversion]))
OverrideWarning ==
  [key |-> "ApiVersionOverride", name |-> this.configAggregator.s]

\* the warnings the stages of this invocation have handed to ux.warn
WarnedHere ==
  (IF Ran("deprecation")
   THEN {CommandWarning : x \in {y \in {1} : cmd.deprecated}}
          \cup {FlagWarning(k) : k \in SuppliedDeprecated}
   ELSE {})
    \cup (IF Ran("apiVersion") /\ Overridden THEN {OverrideWarning} ELSE {})

\* the warnings this invocation has added to UX.warnings
CollectedHere ==
  IF shouldLogWarn(this.logger) /\ this.ux = "disabled" THEN WarnedHere
  ELSE {}

\* C22: UX.warnings is cleared per invocation: the warnings of the JSON
\* payload of an invocation are exactly the warnings collected during that
\* invocation, never one collected by an earlier invocation of the process.
C22_PerInvocation ==
  pc = "done" => \A i \in Payloads : PayloadWarnings(i) = CollectedHere

\* the messages this invocation has printed with ux.warn
Printed == {out[i].message : i \in Calls("warn")}

ListenerCount(all, name) == Cardinality({i \in 1..Len(all) : all[i] = name})
Declares(name) ==
  \E i \in 1..Len(cmd.lifecycleEventNames) : cmd.lifecycleEventNames[i] = name

\* C24: the hook registration of an invocation adds exactly one listener
\* for each lifecycle event name the command declares, and no other step
\* adds or removes a listener, an invocation that fails before the
\* registration included; so the listeners of an event are as many as the
\* invocations that registered it, and one firing of the event calls the
\* external hook once for each of them.
C24_Listeners ==
  /\ [][/\ IF pc = "hooks" /\ pc' = "run"
           THEN \A name \in EventNames \cup {"predeploy"} :
                  ListenerCount(listeners', name) =
                    ListenerCount(listeners, name)
                      + (IF Declares(name) THEN 1 ELSE 0)
           ELSE listeners' = listeners
        /\ hookCalls' # hookCalls =>
             /\ listeners' = listeners
             /\ Len(hookCalls'.calls) =
                  ListenerCount(listeners, hookCalls'.event)
             /\ \A i \in 1..Len(hookCalls'.calls) :
                  hookCalls'.calls[i] = hookCalls'.event]_vars
  /\ [](/\ (pc \in {"catch", "finally", "done"} /\ ~Ran("hooks")) =>
             \A name \in EventNames : ListenerCount(listeners, name) < runs
        /\ \A name \in EventNames : ListenerCount(listeners, name) <= runs)

\* the second invocation of a process has fired an event that both
\* invocations registered: two listeners, two hook calls
C24_Witness ==
  /\ runs = 2
  /\ pc = "run"
  /\ hookCalls.n = 1
  /\ ListenerCount(listeners, hookCalls.event) = 2
  /\ Len(hookCalls.calls) = 2

\* ---------------------------------------------------------------------
\* Claims about validated array flags

\* C25: for an array flag with a validator and no allow-list, parse(raw)
\* succeeds, returning the elements (mapped when the flag has a map
\* function), if and only if each element passes the validator: the
\* validator is applied to the elements and not to the raw string.
C25_ElementValidator ==
  (ArrayCall /\ "validate" \in DOMAIN pflag /\ pflag.options = {}) =>
    /\ pcall.res.ok <=>
         \A i \in 1..Len(Elements) : ~ValidatorRefuses(Elements[i])
    /\ pcall.res.ok => pcall.res.value = Mapped

\* ---------------------------------------------------------------------
\* Claims about the apiVersion warning

\* the aggregated configuration has an apiVersion value; the command line
\* gives --apiversion
ConfiguredVersion ==
  isString(this.configAggregator) /\ this.configAggregator.s # <<>>
FlagGiven ==
  \E i \in 1..Len(argv) :
    /\ Len(argv[i]) > Len(K_apiversion) + 2
    /\ SubSeq(argv[i], 1, Len(K_apiversion) + 3)
         = <<"-", "-">> \o K_apiversion \o <<"=">>
VersionWarning ==
  [key |-> "ApiVersionOverride", name |-> this.configAggregator.s]
VersionCalls ==
  {i \in Calls("warn") : out[i].message.key = "ApiVersionOverride"}

ParseExit ==
  /\ includes(argv, Tok_help)
  /\ Ran("parse") /\ ~Ran("deprecation")
  /\ err.def /\ err.code = "EEXIT"

\* C27: when the parse ends the command with an exit signal (code EEXIT),
\* the body is never run, catch writes nothing, emits no cmdError and
\* leaves the exit status as it is, finally writes nothing, and _run
\* rejects with the exit signal instead of returning undefined.
C27_ExitSignal ==
  /\ (includes(argv, Tok_help) /\ Ran("parse") /\ built.ok) => ParseExit
  /\ ParseExit =>
       /\ ~body.ran /\ ~Ran("run")
       /\ out = <<>>
       /\ exitCode = 0
       /\ err = ExitError
       /\ pc = "done" => ret.kind = "rejected"
       /\ pc \in {"catch", "finally", "done"}

\* an invocation with --help has settled: catch and finally have run,
\* nothing is written and _run has rejected
C27_Witness ==
  /\ ParseExit
  /\ pc = "done"
  /\ Ran("catch") /\ Ran("finally")
  /\ out = <<>>
  /\ ret.kind = "rejected"

\* ---------------------------------------------------------------------
\* Claims about the result

\* C28: the table column data of the Result of an invocation is the one
\* the command class being run declares (none of the commands declares a
\* result of its own, so it is the tableColumnData of the class): running a
\* command never changes the column data a later invocation of another
\* class displays with.
C28_ColumnsOfTheClass ==
  pc # "idle" =>
    /\ this.result.tableColumnData = cmd.tableColumnData
    /\ \A i \in Calls("display") :
         out[i].arg.tableColumnData = cmd.tableColumnData

\* C29: in every invocation Result.display is called at most once and
\* never in JSON mode: once by finally when the invocation succeeded in
\* human mode, or once by catch in human mode when the error thrown has a
\* data payload, result.data being that payload; finally displays nothing
\* after an error.
C29_DisplayOnce ==
  /\ [][(pc = "finally" /\ err.def) => out' = out]_vars
  /\ [](/\ Cardinality(Calls("display")) <= 1
        /\ JsonMode => Calls("display") = {}
        /\ ~Ran("catch") /\ ~Ran("finally") => Calls("display") = {}
        /\ (Succeeded /\ ~JsonMode) =>
             /\ Cardinality(Calls("display")) = 1
             /\ \A i \in Calls("display") : out[i].arg.data = body.value
        /\ (Failed /\ ~JsonMode) =>
             /\ (Calls("display") # {}) <=> err.data # ""
             /\ \A i \in Calls("display") :
                  /\ out[i].arg.data = err.data
                  /\ this.result.data = err.data
                  /\ \E j \in Calls("error") : j < i
        /\ Exited => Calls("display") = {})

\* a human-mode invocation whose body threw an error with a data payload
\* has settled with that payload displayed once
C29_Witness ==
  /\ Failed
  /\ ~JsonMode
  /\ body.ran
  /\ err.data # ""
  /\ Cardinality(Calls("display")) = 1
  /\ \A i \in Calls("display") : out[i].arg.data = err.data

\* C30: in every JSON payload of an invocation the status field is the
\* exit status of the process at the end of the invocation: on success and
\* on failure, where it is the value catch left in the exit status.
C30_StatusIsExitStatus ==
  pc = "done" => \A i \in Payloads : out[i].arg.status = exitCode

====
